---- MODULE Spec2Model ----
(***************************************************************************)
(* RanOS: the Display scheduler (ranos_display), the three Draw sinks      *)
(* (ranos_draw: APA102CPiDraw, TermDraw, NullDraw) and the APA102C/SK9822  *)
(* wire encoder, modelled as state machines.                               *)
(*                                                                         *)
(* Durations are natural numbers of an abstract time unit.  A frame's      *)
(* software brightness is a rational k / BrDen stored as its numerator k.  *)
(***************************************************************************)
EXTENDS Integers, Sequences, FiniteSets, TLC

VARIABLES
    sink,          \* which Draw implementation runs: "pi", "term" or "null"
    displays,      \* the Displays, in display_ids order
    finished,      \* has_finished flag of each Display
    num_finished,  \* run()'s local counter
    num,           \* APA102CPiDraw.num: pixel count used by the stop frame
    brightness,    \* APA102CPiDraw.brightness: the hardware brightness (u8)
    hw,            \* the two GPIO lines and what the LED strip has received
    SIGINT,        \* the cancellation flag set by the signal handler
    pc,            \* position of the main thread
    i,             \* run()'s display index (1-based)
    dt,            \* the dt returned by the last Timer::ping
    exit,          \* why run() returned: "none" while it has not
    last,          \* the last operation performed and its result (observation)
    afterSig,      \* Displays rendered / written since SIGINT was set, counted
                   \* up to 2 (observation)
    timer,         \* a ranos_core Timer while one is driven on its own
    now,           \* the monotonic clock read by Instant::now()
    ticks,         \* the dt values a component under test was ticked with
    built          \* that component as its constructor returned it

vars == <<sink, displays, finished, num_finished, num, brightness, hw, SIGINT,
          pc, i, dt, exit, last, afterSig, timer, now, ticks, built>>

----------------------------------------------------------------------------
(* Bounds of the model *)

MaxLen == 16        \* longest frame of the run-loop and display scenarios
MaxFrame == 17      \* longest frame of the encoder scenarios
MaxTime == 2        \* longest configured Runtime::Time
MaxDt == 2          \* largest dt a ping returns
MaxGens == 2        \* most generators in one Display
BrDen == 4          \* a software brightness is k / BrDen, k in 0..BrDen
MaxNow == 6         \* how far the clock runs while a Timer is driven
MaxTarget == 2      \* largest target_dt of a Timer
MaxPings == 4       \* pings of one Timer
MaxTicks == 4       \* ticks a component under test is driven for
MaxPeriod == 3      \* longest breath duration and strobe period

(* Program constants *)

MaxHwBrightness == 31   \* brightness.min(31)

----------------------------------------------------------------------------
(* Small helpers *)

Min(a, b) == IF a < b THEN a ELSE b
Max(a, b) == IF a > b THEN a ELSE b

RECURSIVE Pow2(_)
Pow2(n) == IF n = 0 THEN 1 ELSE 2 * Pow2(n - 1)

RECURSIVE Rep(_, _)
Rep(n, s) == IF n = 0 THEN <<>> ELSE s \o Rep(n - 1, s)

\* faulty variant: only the first Display is counted
FirstLen(ds) == IF ds = <<>> THEN 0 ELSE Len(Head(ds).frame.leds)

RECURSIVE SumLen(_)
SumLen(ds) == IF ds = <<>> THEN 0 ELSE Len(Head(ds).frame.leds) + SumLen(Tail(ds))

\* u8 bitwise or of a byte with 0xE0: the top three bits are forced to 1
OrE0(b) == 224 + (b % 32)

----------------------------------------------------------------------------
(* Pixel: ranos_ds::rgb::RGB, a triple <<red, green, blue>> of u8 *)

RGBOrders == {"RGB", "RBG", "GRB", "GBR", "BRG", "BGR"}

red(c) == c[1]
green(c) == c[2]
blue(c) == c[3]

\* RGB::scale: the scalar k / BrDen is clamped to [0, 1], each channel is
\* multiplied, clamped to [0, 255] and truncated by the `as u8` cast.
scale(c, k) ==
    LET scalar == Max(Min(k, BrDen), 0)
        ch(x) == Min(Max((x * scalar) \div BrDen, 0), 255)
    IN <<ch(c[1]), ch(c[2]), ch(c[3])>>

\* faulty variant: the colour is sent in RGB order whatever order is asked for
as_tuple_rgb(c, o) == <<c[1], c[2], c[3]>>

as_tuple(c, o) ==
    CASE o = "RGB" -> <<red(c), green(c), blue(c)>>
      [] o = "RBG" -> <<red(c), blue(c), green(c)>>
      [] o = "GRB" -> <<green(c), red(c), blue(c)>>
      [] o = "GBR" -> <<green(c), blue(c), red(c)>>
      [] o = "BRG" -> <<blue(c), red(c), green(c)>>
      [] o = "BGR" -> <<blue(c), green(c), red(c)>>

\* faulty variant: the arms of GBR and BRG are exchanged
from_tuple_swapped(x, o) ==
    CASE o = "RGB" -> <<x[1], x[2], x[3]>>
      [] o = "RBG" -> <<x[1], x[3], x[2]>>
      [] o = "GRB" -> <<x[2], x[1], x[3]>>
      [] o = "GBR" -> <<x[2], x[3], x[1]>>
      [] o = "BRG" -> <<x[3], x[1], x[2]>>
      [] o = "BGR" -> <<x[3], x[2], x[1]>>

\* RGB::from_tuple: the tuple x read in order o; the result is Self(red,
\* green, blue)
from_tuple(x, o) ==
    CASE o = "RGB" -> <<x[1], x[2], x[3]>>
      [] o = "RBG" -> <<x[1], x[3], x[2]>>
      [] o = "GRB" -> <<x[2], x[1], x[3]>>
      [] o = "GBR" -> <<x[3], x[1], x[2]>>
      [] o = "BRG" -> <<x[2], x[3], x[1]>>
      [] o = "BGR" -> <<x[3], x[2], x[1]>>

Black == <<0, 0, 0>>

\* Frame::new: brightness clamped to [0, 1], `size` default (black) pixels
FrameNew(k, size) ==
    [brightness |-> Max(Min(k, BrDen), 0), leds |-> [n \in 1..size |-> Black]]

\* Frame::set_brightness: the value is clamped to [0, 1]
frame_set_brightness(frame, k) == [frame EXCEPT !.brightness = Max(Min(k, BrDen), 0)]

\* Frame::read from a reader that holds the brightness k (any f32), the
\* length len and the pixels `leds`: the fields are stored as they are read.
\* A reader that runs out before len pixels are read gives an error.
frame_read(k, len, leds) ==
    IF Len(leds) < len
    THEN [ok |-> FALSE, frame |-> <<>>]
    ELSE [ok |-> TRUE, frame |-> [brightness |-> k, leds |-> SubSeq(leds, 1, len)]]

----------------------------------------------------------------------------
(* The hardware lines.  hw.data and hw.clock are the levels of the two     *)
(* output pins.  The strip samples the data line on every rising edge of   *)
(* the clock: hw.shift holds the bits sampled since the last full byte,    *)
(* hw.wire the bytes received in the current tick, hw.frameStart the       *)
(* length of hw.wire when start_frame was last entered, and hw.ops the pin *)
(* operations issued by the most recent write_byte.                        *)

Levels == {"Low", "High"}

bit_to_level(byte, bit) ==
    IF (byte \div Pow2(bit)) % 2 # 0 THEN "High" ELSE "Low"

BitOf(level) == IF level = "High" THEN 1 ELSE 0

RECURSIVE ByteOf(_)
ByteOf(bits) ==
    IF bits = <<>> THEN 0
    ELSE 2 * ByteOf(SubSeq(bits, 1, Len(bits) - 1)) + bits[Len(bits)]

\* OutputPin::write(level) on the data pin
DataWrite(h, level) == [h EXCEPT !.data = level, !.ops = Append(@, level)]

\* OutputPin::toggle() on the clock pin; a rising edge clocks the data bit
\* into the strip
ClockToggle(h) ==
    LET rising == h.clock = "Low"
        bits == IF rising THEN Append(h.shift, BitOf(h.data)) ELSE h.shift
        full == Len(bits) = 8
    IN [h EXCEPT !.clock = IF rising THEN "High" ELSE "Low",
                 !.shift = IF full THEN <<>> ELSE bits,
                 !.wire = IF full THEN Append(@, ByteOf(bits)) ELSE @,
                 !.ops = Append(@, "toggle")]

\* faulty variant: one clock toggle per bit
WriteBitOneToggle(h, byte, bit) ==
    ClockToggle(DataWrite(h, bit_to_level(byte, bit)))

WriteBit(h, byte, bit) ==
    ClockToggle(ClockToggle(DataWrite(h, bit_to_level(byte, bit))))

write_byte(h, byte) ==
    LET h0 == [h EXCEPT !.ops = <<>>]
        h7 == WriteBit(h0, byte, 7)
        h6 == WriteBit(h7, byte, 6)
        h5 == WriteBit(h6, byte, 5)
        h4 == WriteBit(h5, byte, 4)
        h3 == WriteBit(h4, byte, 3)
        h2 == WriteBit(h3, byte, 2)
        h1 == WriteBit(h2, byte, 1)
    IN WriteBit(h1, byte, 0)

\* write_byte started with the clock low and no partial byte pending, as it
\* always is after set_pins_low, depends on the byte alone: its outcome is
\* computed once per byte value from write_byte itself (@@ tabulates it).
IdleLine == [data |-> "Low", clock |-> "Low", shift |-> <<>>, wire |-> <<>>,
             frameStart |-> 0, ops |-> <<>>]

ByteTable == [b \in 0..255 |-> write_byte(IdleLine, b)] @@ <<>>

WriteByteAt(line, byte) ==
    IF line.clock = "Low" /\ line.shift = <<>> /\ byte \in DOMAIN ByteTable
    THEN [line EXCEPT !.data = ByteTable[byte].data,
                      !.wire = @ \o ByteTable[byte].wire,
                      !.ops = ByteTable[byte].ops]
    ELSE write_byte(line, byte)

\* self.write_byte(byte) on the lines h.  Here and in the loops below the
\* lines are bound to their value before the next call is made on them (the
\* set {h} has one element), as the statements of the source run in sequence.
WriteByte(h, byte) == CHOOSE r \in {WriteByteAt(line, byte) : line \in {h}} : TRUE

\* faulty variant: only the data line is driven low
set_pins_low_data_only(h) == [h EXCEPT !.data = "Low"]

set_pins_low(h) == [h EXCEPT !.data = "Low", !.clock = "Low"]

start_frame(h) ==
    LET h0 == set_pins_low([h EXCEPT !.frameStart = Len(h.wire)])
    IN WriteByte(WriteByte(WriteByte(WriteByte(h0, 0), 0), 0), 0)

RECURSIVE EndFrameLoop(_, _)
EndFrameLoop(h, n) ==
    IF n = 0 THEN h
    ELSE CHOOSE r \in {EndFrameLoop(line, n - 1) : line \in {WriteByte(h, 0)}} : TRUE

\* for _ in 0..(len >> 4)
end_frame(h, len) == EndFrameLoop(h, len \div 16)

\* faulty variant: the loop of stop never runs
StopLoopSkipped(h, n) == h

RECURSIVE StopLoop(_, _)
StopLoop(h, n) ==
    IF n = 0 THEN h
    ELSE CHOOSE r \in {StopLoop(line, n - 1) : line \in
             {WriteByte(WriteByte(WriteByte(WriteByte(h, 224), 0), 0), 0)}} : TRUE

stop(h, len) == end_frame(StopLoop(start_frame(h), len), len)

RECURSIVE WriteFrameLoop(_, _, _, _)
WriteFrameLoop(h, brightness_mask, frame, n) ==
    IF n > Len(frame.leds) THEN h
    ELSE LET color == as_tuple(scale(frame.leds[n], frame.brightness), "BGR")
             h0 == WriteByte(h, brightness_mask)
             h1 == WriteByte(h0, color[1])
             h2 == WriteByte(h1, color[2])
         IN CHOOSE r \in {WriteFrameLoop(line, brightness_mask, frame, n + 1) :
                             line \in {WriteByte(h2, color[3])}} : TRUE

\* APA102CPiDraw::write_frame for the frame of one Display, with the sink's
\* hardware brightness b
write_frame(h, b, frame) ==
    LET brightness_mask == OrE0(b)
        len == Len(frame.leds)
    IN end_frame(WriteFrameLoop(start_frame(h), brightness_mask, frame, 1), len)

----------------------------------------------------------------------------
(* Generators (ranos_generator::Generator) and Runtime policies.  A        *)
(* generator is a trait object: the model keeps its id and the colour it   *)
(* paints, and takes the GeneratorState each call returns as an input.     *)

GeneratorState == {"Ok", "ErrRetry", "ErrSkip", "ErrFatal"}

Time(t) == [type |-> "Time", t |-> t]
Trigger == [type |-> "Trigger", t |-> 0]

Palette == << <<255, 0, 0>>, <<1, 130, 255>>, <<0, 255, 7>> >>

ColorOf(id) == Palette[(id % Len(Palette)) + 1]

\* faulty variant: a remaining time equal to dt counts as exhausted
checked_sub_strict(t, d) == IF t > d THEN t - d ELSE -1

\* faulty variant: the subtraction saturates at zero and never fails
saturating_sub(t, d) == IF t >= d THEN t - d ELSE 0

\* Duration::checked_sub: None (here -1) when the result would be negative
checked_sub(t, d) == IF t >= d THEN t - d ELSE -1

\* the order of CycleBuilder's default: red, green, blue
CyclePalette == << <<255, 0, 0>>, <<0, 255, 0>>, <<0, 0, 255>> >>

\* Cycle::new with ColorOrder::Ordered(order)
CycleNew(id, cycle_period, order) ==
    [type |-> "Cycle", id |-> id, order |-> order, ind |-> 0,
     current_color |-> order[1], cycle_period |-> cycle_period,
     cycle_time_remaining |-> cycle_period]

\* every pixel of the frame set to one colour
Fill(frame, c) == [frame EXCEPT !.leds = [n \in DOMAIN frame.leds |-> c]]

\* Cycle::render_frame for an ordered palette.  The countdown loses dt; when
\* checked_sub fails the next colour is taken, the frame is painted with it
\* and the countdown is refilled with cycle_period + cycle_time_remaining - dt.
\* That subtraction of Durations panics when dt is larger than the sum
\* (panic |-> TRUE: ind, current_color and the frame have been written,
\* cycle_time_remaining has not).  The call returns GeneratorState::Ok.
cycle_render_frame(anim, frame, d) ==
    IF checked_sub(anim.cycle_time_remaining, d) >= 0
    THEN [gen |-> [anim EXCEPT !.cycle_time_remaining = @ - d],
          frame |-> frame, panic |-> FALSE]
    ELSE LET ind == (anim.ind + 1) % Len(anim.order)
             next == [anim EXCEPT !.ind = ind, !.current_color = anim.order[ind + 1]]
             refill == anim.cycle_period + anim.cycle_time_remaining - d
         IN IF refill < 0
            THEN [gen |-> next, frame |-> Fill(frame, next.current_color), panic |-> TRUE]
            ELSE [gen |-> [next EXCEPT !.cycle_time_remaining = refill],
                  frame |-> Fill(frame, next.current_color), panic |-> FALSE]

\* Cycle::reset
cycle_reset(anim) ==
    [anim EXCEPT !.ind = 0, !.current_color = anim.order[1],
                 !.cycle_time_remaining = anim.cycle_period]

\* Generator::render_frame through the trait object.  A Cycle runs its own
\* code (it returns Ok whatever `out` says).  Of any other generator the
\* model knows only this: one that returns Ok has advanced its transient
\* state (it is no longer in its post-construction state) and has painted
\* every pixel of the frame it was handed; one that fails has done neither.
generator_render_frame(anim, frame, d, out) ==
    IF anim.type = "Cycle"
    THEN [gen |-> cycle_render_frame(anim, frame, d).gen,
          frame |-> cycle_render_frame(anim, frame, d).frame]
    ELSE IF out = "Ok"
    THEN [gen |-> [anim EXCEPT !.fresh = FALSE],
          frame |-> [frame EXCEPT !.leds = [n \in DOMAIN frame.leds |-> anim.color]]]
    ELSE [gen |-> anim, frame |-> frame]

\* Generator::reset: back to the post-construction state
generator_reset(anim) ==
    IF anim.type = "Cycle" THEN cycle_reset(anim) ELSE [anim EXCEPT !.fresh = TRUE]

----------------------------------------------------------------------------
(* Filters (ranos_filter::Filter): Breath and Strobe.  Durations are whole *)
(* ticks.  A Breath of duration D keeps vel and pos in units of 1 / D^2,   *)
(* in which acc = -8 / D^2 is -8 and vel0 = 4 / D is 4 * D; a Strobe of    *)
(* frequency 1 / period keeps its duty as duty / BrDen.                    *)

\* Breath::new
BreathNew(D) == [type |-> "Breath", dur |-> D, vel |-> 4 * D, pos |-> 0]

\* Strobe::new
StrobeNew(period, duty) ==
    [type |-> "Strobe", period |-> period, duty |-> Min(Max(duty, 0), BrDen),
     time |-> 0]

\* RGB::scale by the scalar numer / denom
scale_by(c, numer, denom) ==
    LET scalar == Min(Max(numer, 0), denom)
    IN [n \in 1..3 |-> Min(Max((c[n] * scalar) \div denom, 0), 255)]

\* the statement `led.scale(x);`: RGB::scale takes &self and returns a new
\* RGB, which the statement drops; the pixel it was called on keeps its value
scale_statement(led, numer, denom) ==
    LET scaled == scale_by(led, numer, denom)
    IN led

\* faulty variant: the position is not brought back to 0 at the end of a breath
breath_filter_frame_unclamped(f, frame, d) ==
    LET vel == f.vel - 8 * d
        pos == f.pos + vel * d
        f1 == [f EXCEPT !.vel = vel, !.pos = pos]
    IN [filter |-> f1,
        frame |-> [frame EXCEPT !.leds =
                      [n \in DOMAIN @ |-> scale_statement(@[n], f1.pos, f.dur * f.dur)]],
        state |-> "Ok"]

\* Breath::filter_frame
breath_filter_frame(f, frame, d) ==
    LET vel == f.vel - 8 * d
        pos == f.pos + vel * d
        wrap == pos <= 0 /\ vel < 0
        f1 == [f EXCEPT !.vel = IF wrap THEN 4 * f.dur ELSE vel,
                        !.pos = IF wrap THEN 0 ELSE pos]
    IN [filter |-> f1,
        frame |-> [frame EXCEPT !.leds =
                      [n \in DOMAIN @ |-> scale_statement(@[n], f1.pos, f.dur * f.dur)]],
        state |-> "Ok"]

\* Strobe::filter_frame: r = time * frequency exceeds duty = duty / BrDen
\* exactly when time * BrDen > duty * period
strobe_filter_frame(f, frame, d) ==
    LET time == (f.time + d) % f.period
        off == time * BrDen > f.duty * f.period
    IN [filter |-> [f EXCEPT !.time = time],
        frame |-> [frame EXCEPT !.leds =
                      [n \in DOMAIN @ |->
                          IF off THEN scale_statement(@[n], 0, 1) ELSE @[n]]],
        state |-> "Ok"]

\* Filter::filter_frame, dispatched on the filter's type
filter_frame(f, frame, d) ==
    IF f.type = "Breath" THEN breath_filter_frame(f, frame, d)
    ELSE strobe_filter_frame(f, frame, d)

\* Breath::reset (filter): only vel is written
breath_filter_reset(f) == [f EXCEPT !.vel = 4 * f.dur]

\* Strobe::reset (filter)
strobe_filter_reset(f) == [f EXCEPT !.time = 0]

\* Filter::reset, dispatched on the filter's type
filter_reset(f) ==
    IF f.type = "Breath" THEN breath_filter_reset(f) ELSE strobe_filter_reset(f)

----------------------------------------------------------------------------
(* The generators of ranos_animation: Rainbow and Breath.  Each carries a  *)
(* runtime and reports Last once it is used up.  A Rainbow over a period   *)
(* of L ticks keeps its hue in units of 1 / L degree, in which dh * dt is  *)
(* 360 * dt; saturation, value and arc are 1 as in the builder's default.  *)
(* A Breath keeps vel and pos in the units of the Breath filter.           *)

\* RGB::from_hsv(h, 1, 1) for h = hn / hd degrees: h %= 360, c = 1,
\* x = 1 - |(h / 60) % 2 - 1|, m = 0, the channels cut to u8
from_hsv(hn, hd) ==
    LET h == hn % (360 * hd)
        r2 == h % (120 * hd)
        xn == IF r2 >= 60 * hd THEN 120 * hd - r2 ELSE r2
        x == (255 * xn) \div (60 * hd)
        c == 255
    IN CASE h < 60 * hd -> <<c, x, 0>>
         [] h >= 60 * hd /\ h < 120 * hd -> <<x, c, 0>>
         [] h >= 120 * hd /\ h < 180 * hd -> <<0, c, x>>
         [] h >= 180 * hd /\ h < 240 * hd -> <<0, x, c>>
         [] h >= 240 * hd /\ h < 300 * hd -> <<x, 0, c>>
         [] OTHER -> <<c, 0, x>>

\* Rainbow::new
RainbowNew(runtime, rainbow_length, step) ==
    [type |-> "Rainbow", runtime |-> runtime, time_remaining |-> runtime,
     hue |-> 0, rainbow_length |-> rainbow_length, step |-> step]

\* `if self.hue >= 360.0 { self.hue -= 360.0; }`
rainbow_hue(hue, L) == IF hue >= 360 * L THEN hue - 360 * L ELSE hue

\* Rainbow::render_frame
rainbow_render_frame(anim, frame, d) ==
    LET L == anim.rainbow_length
        hue == rainbow_hue(anim.hue + 360 * d, L)
        len == Len(frame.leds)
        phase(n) == ((n - 1) \div anim.step) * anim.step * 360
        tr == checked_sub(anim.time_remaining, d)
    IN [comp |-> [anim EXCEPT !.hue = hue,
                              !.time_remaining = IF tr >= 0 THEN tr ELSE 0],
        frame |-> [frame EXCEPT !.leds =
                      [n \in DOMAIN @ |->
                          from_hsv(hue * len + phase(n) * L, L * len)]],
        state |-> IF tr >= 0 THEN "Continue" ELSE "Last",
        panic |-> FALSE]

\* Rainbow::reset
rainbow_reset(anim) == [anim EXCEPT !.time_remaining = anim.runtime, !.hue = 0]

\* Breath::new (generator) with ColorOrder::Ordered(order)
AnimBreathNew(runtime, D, order) ==
    [type |-> "BreathGen", runtime |-> runtime, time_remaining |-> runtime,
     order |-> order, ind |-> 0, current_color |-> order[1],
     dur |-> D, vel |-> 4 * D, pos |-> 0]

\* Breath::render_frame (generator)
anim_breath_render_frame(anim, frame, d) ==
    LET vel == anim.vel - 8 * d
        pos == anim.pos + vel * d
        wrap == pos <= 0 /\ vel < 0
        ind == IF wrap THEN (anim.ind + 1) % Len(anim.order) ELSE anim.ind
        a1 == [anim EXCEPT !.vel = IF wrap THEN 4 * anim.dur ELSE vel,
                           !.pos = IF wrap THEN 0 ELSE pos,
                           !.ind = ind,
                           !.current_color = anim.order[ind + 1]]
        tr == checked_sub(anim.time_remaining, d)
    IN [comp |-> [a1 EXCEPT !.time_remaining = IF tr >= 0 THEN tr ELSE 0],
        frame |-> Fill(frame, scale_by(a1.current_color, a1.pos, anim.dur * anim.dur)),
        state |-> IF tr >= 0 THEN "Continue" ELSE "Last",
        panic |-> FALSE]

\* Breath::reset (generator): pos is not written
anim_breath_reset(anim) ==
    [anim EXCEPT !.time_remaining = anim.runtime, !.ind = 0,
                 !.current_color = anim.order[1], !.vel = 4 * anim.dur]

----------------------------------------------------------------------------
(* Display (ranos_display::Display) *)

\* Display::new: the runtimes are paired with fresh generators; ids are the
\* process-unique ids firstId, firstId + 1, ...
DisplayNew(id, k, size, looping, runtimes, filters, firstId) ==
    LET gens == [n \in 1..Len(runtimes) |->
                    [gen |-> [type |-> "Dyn", id |-> firstId + n - 1,
                             color |-> ColorOf(firstId + n - 1), fresh |-> TRUE],
                     rt |-> runtimes[n]]]
    IN [id |-> id,
        frame |-> FrameNew(k, size),
        looping |-> looping,
        generators |-> gens,
        filters |-> filters,
        original_runtimes |->
            [g \in {gens[n].gen.id : n \in 1..Len(gens)} |->
                runtimes[g - firstId + 1]]]

\* Display::trigger_next_generator: VecDeque::pop_front, a no-op when empty
trigger_next_generator(d) ==
    IF d.generators = <<>> THEN d
    ELSE [d EXCEPT !.generators = Tail(@)]

\* Display::render_frame.  res[g] is the GeneratorState generator g returns
\* in this call.  The result holds the Display after the call, the
\* DisplayState returned and, in `calls`, the ids of the generators whose
\* render_frame the call invoked, in order.
\* faulty variant: an empty queue is reported as an error
render_empty_err(d) == [d |-> d, state |-> "Err", calls |-> <<>>]

\* the else branch of `if let Some(..) = self.generators.pop_front()`
render_empty(d) == [d |-> d, state |-> "Done", calls |-> <<>>]

\* faulty variant: a skipped generator is requeued at the back
render_skip_back(popped, anim, rt) ==
    [d |-> [popped EXCEPT !.generators = Append(@, [gen |-> anim, rt |-> rt])],
     state |-> "Ok", calls |-> <<anim.id>>]

\* GeneratorState::ErrSkip => push_front((anim, rt)); DisplayState::Ok
render_skip(popped, anim, rt) ==
    [d |-> [popped EXCEPT !.generators = <<[gen |-> anim, rt |-> rt]>> \o @],
     state |-> "Ok", calls |-> <<anim.id>>]

\* faulty variant: a fatal generator error is swallowed
render_fatal_ok(popped, anim) == [d |-> popped, state |-> "Ok", calls |-> <<anim.id>>]

\* GeneratorState::ErrFatal => DisplayState::Err
render_fatal(popped, anim) == [d |-> popped, state |-> "Err", calls |-> <<anim.id>>]

\* faulty variant: a looping Display drops the generator whose slot ran out
render_loop_drop(popped, anim, rt) ==
    [d |-> popped, state |-> "Ok", calls |-> <<anim.id>>]

\* if self.looping { self.generators.push_back((anim, rt)); }
render_loop(popped, anim, rt) ==
    [d |-> [popped EXCEPT !.generators = Append(@, [gen |-> anim, rt |-> rt])],
     state |-> "Ok", calls |-> <<anim.id>>]

RECURSIVE render_frame(_, _, _)
render_frame(d, delta, res) ==
    IF d.generators = <<>> THEN render_empty(d)
    ELSE
      LET rt == Head(d.generators).rt
          out == res[Head(d.generators).gen.id]
          \* pop_front, then the generator's own render_frame
          r == generator_render_frame(Head(d.generators).gen, d.frame, delta, out)
          anim == r.gen
          popped == [d EXCEPT !.generators = Tail(@), !.frame = r.frame]
      IN CASE out = "Ok" ->
                IF rt.type = "Time"
                THEN IF checked_sub(rt.t, delta) >= 0
                     THEN [d |-> [popped EXCEPT !.generators =
                                     <<[gen |-> anim,
                                        rt |-> Time(checked_sub(rt.t, delta))]>> \o @],
                           state |-> "Ok", calls |-> <<anim.id>>]
                     ELSE IF d.looping
                          THEN render_loop(popped, anim, rt)
                          ELSE [d |-> popped, state |-> "Ok", calls |-> <<anim.id>>]
                ELSE [d |-> trigger_next_generator(popped), state |-> "Ok",
                      calls |-> <<anim.id>>]
           [] out = "ErrRetry" ->
                [render_frame(popped, delta, res) EXCEPT !.calls = <<anim.id>> \o @]
           [] out = "ErrSkip" -> render_skip(popped, anim, rt)
           [] out = "ErrFatal" -> render_fatal(popped, anim)

\* Display::reset
display_reset(d) ==
    [d EXCEPT !.generators =
        [n \in DOMAIN @ |-> [gen |-> generator_reset(@[n].gen),
                             rt |-> d.original_runtimes[@[n].gen.id]]]]

----------------------------------------------------------------------------
(* Construction of a drawer *)

Sinks == {"pi", "term", "null"}

RuntimeSet == {Trigger} \cup {Time(t) : t \in {1, MaxTime}}

RuntimeSeqs == UNION {[1..n -> RuntimeSet] : n \in 0..MaxGens}

LenSet == {1, MaxLen}

DtSet == 0..MaxDt

\* the filter lists of the Display scenarios: none, or a Breath followed by
\* a Strobe
FilterSeqs == {<<>>, <<BreathNew(MaxPeriod), StrobeNew(2, 1)>>}

\* A DisplayBuilder: brightness, size, looping, the generator runtimes and
\* the filters
DisplayBuilders ==
    [k : 0..BrDen, size : LenSet, looping : BOOLEAN, runtimes : RuntimeSeqs,
     filters : FilterSeqs]

\* The drawers of the run-loop scenarios hold one or two Displays, each
\* with no generator or one timed generator.
DisplayCounts == {1, 2}

RunRuntimes == {<<>>, <<Time(1)>>}

RunBuilders ==
    [k : {BrDen}, size : LenSet, looping : BOOLEAN, runtimes : RunRuntimes,
     filters : {<<>>}]

RECURSIVE BuildDisplays(_, _, _)
BuildDisplays(builders, id, firstId) ==
    IF builders = <<>> THEN <<>>
    ELSE LET b == Head(builders)
         IN <<DisplayNew(id, b.k, b.size, b.looping, b.runtimes, b.filters, firstId)>>
            \o BuildDisplays(Tail(builders), id + 1, firstId + Len(b.runtimes))

\* `last` records the operation just performed: its name, the Display it
\* acted on, its argument (a byte or a length; for a render the ids of the
\* generators it called, in order), the GeneratorStates the generators
\* returned and the state it reported.
Call(op, disp, arg, res, state) ==
    [op |-> op, disp |-> disp, arg |-> arg, res |-> res, state |-> state]

NoCall == Call("none", 0, 0, <<>>, "none")

\* the lines of a freshly opened pair of output pins
HwNew(d, c) ==
    [data |-> d, clock |-> c, shift |-> <<>>, wire |-> <<>>, frameStart |-> 0,
     ops |-> <<>>]

\* APA102CPiDraw::new / TermDraw::new / NullDraw::new
RunInit(builderSet) ==
    /\ sink \in Sinks
    /\ \E n \in DisplayCounts : \E builders \in [1..n -> builderSet] :
          displays = BuildDisplays(builders, 1, 1)
    /\ finished = [n \in DOMAIN displays |-> FALSE]
    /\ num_finished = 0
    /\ num = IF sink = "pi" THEN SumLen(displays) ELSE 0
    /\ brightness \in IF sink = "pi" THEN {MaxHwBrightness} ELSE {0}
    /\ hw \in IF sink = "pi" THEN {HwNew(l, l) : l \in Levels}
                              ELSE {HwNew("Low", "Low")}
    /\ SIGINT = FALSE
    /\ pc = "start"
    /\ i = 0
    /\ dt = 0
    /\ exit = "none"
    /\ last = NoCall
    /\ afterSig = [rendered |-> 0, written |-> 0]
    /\ timer = <<>> /\ now = 0 /\ ticks = <<>> /\ built = <<>>

Init == RunInit(RunBuilders)

\* the same sinks over Displays of one pixel
InitLive == RunInit({b \in RunBuilders : b.size = 1})

----------------------------------------------------------------------------
(* Draw::run, one step of the main thread per action *)

\* faulty variant: after the last Display the loop starts over without a
\* new ping
NextDisplayAgain ==
    IF i < Len(displays)
    THEN /\ i' = i + 1
         /\ pc' = "render"
    ELSE /\ i' = 1
         /\ pc' = "render"

\* what follows the body of `for i in 0..self.displays.len()`
NextDisplay ==
    IF i < Len(displays)
    THEN /\ i' = i + 1
         /\ pc' = "render"
    ELSE /\ i' = i
         /\ pc' = "ping"

\* run() is entered: self.timer.reset(); let mut num_finished = 0
Run ==
    /\ pc = "start"
    /\ pc' = "ping"
    /\ num_finished' = 0
    /\ last' = Call("run", 0, 0, <<>>, "none")
    /\ UNCHANGED <<timer, now, ticks, built, sink, displays, finished, num, brightness, hw, SIGINT, i, dt,
                   exit, afterSig>>

\* while num_finished < self.displays.len() { let dt = self.timer.ping(); ...
Ping ==
    /\ pc = "ping"
    /\ num_finished < Len(displays)
    /\ \E d \in DtSet : dt' = d
    /\ i' = 1
    /\ pc' = "render"
    /\ hw' = [hw EXCEPT !.wire = <<>>, !.frameStart = 0]
    /\ last' = Call("ping", 0, 0, <<>>, "none")
    /\ UNCHANGED <<timer, now, ticks, built, sink, displays, finished, num_finished, num, brightness,
                   SIGINT, exit, afterSig>>

\* the while condition fails: run() returns normally
Complete ==
    /\ pc = "ping"
    /\ ~(num_finished < Len(displays))
    /\ pc' = "returned"
    /\ exit' = "complete"
    /\ last' = Call("complete", 0, 0, <<>>, "none")
    /\ UNCHANGED <<timer, now, ticks, built, sink, displays, finished, num_finished, num, brightness, hw,
                   SIGINT, i, dt, afterSig>>

\* faulty variant: the frame of a finished Display is not written again
AfterRenderUnfinishedOnly ==
    IF sink = "null" \/ finished[i] THEN NextDisplay ELSE (pc' = "write" /\ i' = i)

AfterRender == IF sink = "null" THEN NextDisplay ELSE (pc' = "write" /\ i' = i)

GenIds(d) == {d.generators[n].gen.id : n \in DOMAIN d.generators}

\* What the generators of d return to one call of render_frame: a state for
\* each generator the call can reach.  The call goes on to the next queued
\* generator only after ErrRetry, so the entry of a generator behind one that
\* returned anything else is never read; it is fixed to Ok.
Results(d) ==
    {res \in [GenIds(d) -> GeneratorState] :
        \A n \in DOMAIN d.generators :
            (\E m \in 1..(n - 1) : res[d.generators[m].gen.id] # "ErrRetry")
                => res[d.generators[n].gen.id] = "Ok"}

\* faulty variant: a Display error ends only that Display's turn
RenderErrGoesOn ==
    /\ AfterRender
    /\ exit' = "error"
    /\ UNCHANGED <<finished, num_finished>>

\* DisplayState::Err => return
RenderErr ==
    /\ pc' = "returned"
    /\ exit' = "error"
    /\ UNCHANGED <<finished, num_finished, i>>

\* faulty variant: the Display is counted but its flag is not set
RenderLastUnflagged ==
    /\ finished' = finished
    /\ num_finished' = num_finished + 1
    /\ AfterRender
    /\ UNCHANGED exit

\* DisplayState::Last => { *has_finished = true; num_finished += 1; }
RenderLast ==
    /\ finished' = [finished EXCEPT ![i] = TRUE]
    /\ num_finished' = num_finished + 1
    /\ AfterRender
    /\ UNCHANGED exit

\* if !*has_finished { match d.render_frame(dt) { ... } }
Render ==
    /\ pc = "render"
    /\ ~finished[i]
    /\ \E res \in Results(displays[i]) :
          LET r == render_frame(displays[i], dt, res)
          IN /\ displays' = [displays EXCEPT ![i] = r.d]
             /\ last' = Call("render", i, r.calls, res, r.state)
             /\ CASE r.state = "Ok" ->      \* DisplayState::Continue
                       /\ AfterRender
                       /\ UNCHANGED <<finished, num_finished, exit>>
                  [] r.state = "Done" -> RenderLast    \* DisplayState::Last
                  [] r.state = "Err" -> RenderErr
    /\ afterSig' = IF SIGINT THEN [afterSig EXCEPT !.rendered = Min(@ + 1, 2)] ELSE afterSig
    /\ UNCHANGED <<timer, now, ticks, built, sink, num, brightness, hw, SIGINT, dt>>

\* a Display that has finished is not rendered again
SkipRender ==
    /\ pc = "render"
    /\ finished[i]
    /\ AfterRender
    /\ last' = Call("skip", i, 0, <<>>, "none")
    /\ UNCHANGED <<timer, now, ticks, built, sink, displays, finished, num_finished, num, brightness, hw,
                   SIGINT, dt, exit, afterSig>>

\* self.write_frame(display_id): the hardware sink transmits the frame, the
\* terminal sink prints it
Write ==
    /\ pc = "write"
    /\ IF sink = "pi"
       THEN /\ hw' = write_frame(hw, brightness, displays[i].frame)
            /\ pc' = "check"
            /\ i' = i
       ELSE /\ hw' = hw
            /\ NextDisplay
    /\ last' = Call("write", i, 0, <<>>, "none")
    /\ afterSig' = IF SIGINT THEN [afterSig EXCEPT !.written = Min(@ + 1, 2)] ELSE afterSig
    /\ UNCHANGED <<timer, now, ticks, built, sink, displays, finished, num_finished, num, brightness,
                   SIGINT, dt, exit>>

\* faulty variant: the flag is looked at only after the last Display of a tick
CheckAtTickEnd ==
    /\ pc = "check"
    /\ IF SIGINT /\ i = Len(displays)
       THEN /\ pc' = "returned"
            /\ exit' = "sigint"
            /\ i' = i
       ELSE /\ NextDisplay
            /\ exit' = exit
    /\ last' = Call("check", i, 0, <<>>, IF SIGINT THEN "set" ELSE "clear")
    /\ UNCHANGED <<timer, now, ticks, built, sink, displays, finished, num_finished, num, brightness, hw,
                   SIGINT, dt, afterSig>>

\* if SIGINT.load(Ordering::Relaxed) == true { return; }
Check ==
    /\ pc = "check"
    /\ IF SIGINT
       THEN /\ pc' = "returned"
            /\ exit' = "sigint"
            /\ i' = i
       ELSE /\ NextDisplay
            /\ exit' = exit
    /\ last' = Call("check", i, 0, <<>>, IF SIGINT THEN "set" ELSE "clear")
    /\ UNCHANGED <<timer, now, ticks, built, sink, displays, finished, num_finished, num, brightness, hw,
                   SIGINT, dt, afterSig>>

\* the drawer is dropped after run() has returned: impl Drop for
\* APA102CPiDraw calls self.stop(self.num); the other sinks have no Drop
Drop ==
    /\ pc = "returned"
    /\ pc' = "dropped"
    /\ hw' = IF sink = "pi" THEN stop(hw, num) ELSE hw
    /\ last' = Call("drop", 0, 0, <<>>, "none")
    /\ UNCHANGED <<timer, now, ticks, built, sink, displays, finished, num_finished, num, brightness,
                   SIGINT, i, dt, exit, afterSig>>

\* the ctrlc handler: arc.store(true, Ordering::Relaxed), at any moment
Signal ==
    /\ ~SIGINT
    /\ pc # "dropped"
    /\ SIGINT' = TRUE
    /\ UNCHANGED <<timer, now, ticks, built, sink, displays, finished, num_finished, num, brightness, hw,
                   pc, i, dt, exit, last, afterSig>>

RunStep == Run \/ Ping \/ Complete \/ Render \/ SkipRender \/ Write \/ Check \/ Drop

Next == RunStep \/ Signal

Spec == Init /\ [][Next]_vars

\* The main thread is never suspended for good: whenever run() or the drop
\* that follows it can take a step, a step is taken.  Nothing is assumed
\* about the signal.
SpecLive == InitLive /\ [][Next]_vars /\ WF_vars(RunStep)

----------------------------------------------------------------------------
(* A Display driven directly through its public methods *)


InitDisplay ==
    /\ sink = "null"
    /\ \E b \in DisplayBuilders :
          /\ b.k = BrDen
          /\ b.size = 1
          /\ displays = BuildDisplays(<<b>>, 1, 1)
    /\ finished = <<FALSE>>
    /\ num_finished = 0
    /\ num = 0
    /\ brightness = 0
    /\ hw = HwNew("Low", "Low")
    /\ SIGINT = FALSE
    /\ pc = "display"
    /\ i = 1
    /\ dt = 0
    /\ exit = "none"
    /\ last = NoCall
    /\ afterSig = [rendered |-> 0, written |-> 0]
    /\ timer = <<>> /\ now = 0 /\ ticks = <<>> /\ built = <<>>

\* display.render_frame(dt)
DisplayRender ==
    /\ pc = "display"
    /\ \E d \in DtSet : \E res \in Results(displays[1]) :
          LET r == render_frame(displays[1], d, res)
          IN /\ dt' = d
             /\ displays' = <<r.d>>
             /\ last' = Call("render", 1, r.calls, res, r.state)
    /\ UNCHANGED <<timer, now, ticks, built, sink, finished, num_finished, num, brightness, hw, SIGINT, pc,
                   i, exit, afterSig>>

\* display.trigger_next_generator()
DisplayTrigger ==
    /\ pc = "display"
    /\ displays' = <<trigger_next_generator(displays[1])>>
    /\ last' = Call("trigger", 1, 0, <<>>, "none")
    /\ UNCHANGED <<timer, now, ticks, built, sink, finished, num_finished, num, brightness, hw, SIGINT, pc,
                   i, dt, exit, afterSig>>

\* display.reset()
DisplayReset ==
    /\ pc = "display"
    /\ displays' = <<display_reset(displays[1])>>
    /\ last' = Call("reset", 1, 0, <<>>, "none")
    /\ UNCHANGED <<timer, now, ticks, built, sink, finished, num_finished, num, brightness, hw, SIGINT, pc,
                   i, dt, exit, afterSig>>

NextDisplayOps == DisplayRender \/ DisplayTrigger \/ DisplayReset

SpecDisplay == InitDisplay /\ [][NextDisplayOps]_vars

----------------------------------------------------------------------------
(* The hardware sink's frame encoder applied to one frame, and write_byte  *)
(* applied to one byte                                                     *)

\* APA102CPiDrawBuilder::brightness: brightness.min(31)
BuilderBrightness(b) == Min(b, MaxHwBrightness)

\* a frame whose pixels differ from one another, as a generator painting a
\* gradient leaves it
Painted(frame) ==
    [frame EXCEPT !.leds = [n \in DOMAIN frame.leds |-> ColorOf(n)]]

InitSink ==
    /\ sink = "pi"
    /\ \E k \in 0..BrDen : \E size \in 0..MaxFrame :
          LET d == DisplayNew(1, k, size, FALSE, <<>>, <<>>, 1)
          IN displays = <<[d EXCEPT !.frame = Painted(@)]>>
    /\ finished = <<FALSE>>
    /\ num_finished = 0
    /\ num = SumLen(displays)
    /\ \E b \in 0..(MaxHwBrightness + 1) : brightness = BuilderBrightness(b)
    /\ hw \in {HwNew(l, l) : l \in Levels}
    /\ SIGINT = FALSE
    /\ pc = "sink"
    /\ i = 1
    /\ dt = 0
    /\ exit = "none"
    /\ last = NoCall
    /\ afterSig = [rendered |-> 0, written |-> 0]
    /\ timer = <<>> /\ now = 0 /\ ticks = <<>> /\ built = <<>>

\* self.write_frame(display_id); hw.wire holds what this call transmits
SinkWriteFrame ==
    /\ pc = "sink"
    /\ hw' = write_frame([hw EXCEPT !.wire = <<>>], brightness, displays[1].frame)
    /\ last' = Call("write", 1, 0, <<>>, "none")
    /\ UNCHANGED <<timer, now, ticks, built, sink, displays, finished, num_finished, num, brightness,
                   SIGINT, pc, i, dt, exit, afterSig>>

\* self.stop(self.num); hw.wire holds what this call transmits
SinkStop ==
    /\ pc = "sink"
    /\ hw' = stop([hw EXCEPT !.wire = <<>>], num)
    /\ last' = Call("stop", 0, num, <<>>, "none")
    /\ UNCHANGED <<timer, now, ticks, built, sink, displays, finished, num_finished, num, brightness,
                   SIGINT, pc, i, dt, exit, afterSig>>

NextSink == SinkWriteFrame \/ SinkStop

SpecSink == InitSink /\ [][NextSink]_vars

InitByte ==
    /\ sink = "pi"
    /\ displays = <<>>
    /\ finished = <<>>
    /\ num_finished = 0
    /\ num = 0
    /\ brightness = 0
    /\ hw \in {HwNew(d, c) : d \in Levels, c \in Levels}
    /\ SIGINT = FALSE
    /\ pc = "pins"
    /\ i = 0
    /\ dt = 0
    /\ exit = "none"
    /\ last = NoCall
    /\ afterSig = [rendered |-> 0, written |-> 0]
    /\ timer = <<>> /\ now = 0 /\ ticks = <<>> /\ built = <<>>

\* self.set_pins_low(), the first thing every frame transmission does
PinsLow ==
    /\ pc \in {"pins", "byte"}
    /\ hw' = set_pins_low(hw)
    /\ pc' = "byte"
    /\ last' = Call("set_pins_low", 0, 0, <<>>, "none")
    /\ UNCHANGED <<timer, now, ticks, built, sink, displays, finished, num_finished, num, brightness,
                   SIGINT, i, dt, exit, afterSig>>

\* self.write_byte(byte); hw.wire holds what this call transmits
ByteCall ==
    /\ pc = "byte"
    /\ \E byte \in 0..255 :
          /\ hw' = WriteByte([hw EXCEPT !.wire = <<>>], byte)
          /\ last' = Call("write_byte", 0, byte, <<>>, "none")
    /\ UNCHANGED <<timer, now, ticks, built, sink, displays, finished, num_finished, num, brightness,
                   SIGINT, pc, i, dt, exit, afterSig>>

NextByte == PinsLow \/ ByteCall

SpecByte == InitByte /\ [][NextByte]_vars

----------------------------------------------------------------------------
(* One filter applied again and again to a painted frame *)

FilterSet ==
    {BreathNew(D) : D \in 1..MaxPeriod}
        \cup {StrobeNew(p, k) : p \in 1..MaxPeriod, k \in 0..BrDen}

InitFilter ==
    /\ sink = "null"
    /\ \E f \in FilterSet : \E size \in LenSet :
          LET d == DisplayNew(1, BrDen, size, FALSE, <<>>, <<f>>, 1)
          IN displays = <<[d EXCEPT !.frame = Painted(@)]>>
    /\ finished = <<FALSE>>
    /\ num_finished = 0
    /\ num = 0
    /\ brightness = 0
    /\ hw = HwNew("Low", "Low")
    /\ SIGINT = FALSE
    /\ pc = "filter"
    /\ i = 1
    /\ dt = 0
    /\ exit = "none"
    /\ last = NoCall
    /\ afterSig = [rendered |-> 0, written |-> 0]
    /\ timer = <<>> /\ now = 0 /\ ticks = <<>> /\ built = <<>>

\* filter.filter_frame(&mut frame, dt)
FilterFrame ==
    /\ pc = "filter"
    /\ \E d \in DtSet :
          LET r == filter_frame(displays[1].filters[1], displays[1].frame, d)
          IN /\ displays' = <<[displays[1] EXCEPT !.filters = <<r.filter>>,
                                                  !.frame = r.frame]>>
             /\ dt' = d
             /\ last' = Call("filter", 1, 0, <<>>, r.state)
    /\ UNCHANGED <<timer, now, ticks, built, sink, finished, num_finished, num, brightness, hw, SIGINT, pc,
                   i, exit, afterSig>>

NextFilter == FilterFrame

SpecFilter == InitFilter /\ [][NextFilter]_vars

----------------------------------------------------------------------------
(* One Display whose only generator is a Cycle, ticked directly.           *)

\* the tick sizes tried on a Cycle of period P: none, a part of a period, a
\* whole period, more than two periods
TickDts(P) == {0, 1, P, 2 * P + 1}

CycleRuntimes(P) == {Time(2 * P), Time(3 * P), Trigger}

\* Display::new over one CycleBuilder with the default palette
CycleDisplayNew(k, size, looping, rt, P) ==
    [DisplayNew(1, k, size, looping, <<rt>>, <<>>, 1)
        EXCEPT !.generators = <<[gen |-> CycleNew(1, P, CyclePalette), rt |-> rt]>>]

InitCycle ==
    /\ sink = "null"
    /\ \E P \in 1..MaxPeriod : \E rt \in CycleRuntimes(P) :
       \E size \in {1, 2} : \E looping \in BOOLEAN :
          built = <<CycleDisplayNew(BrDen, size, looping, rt, P)>>
    /\ displays = built
    /\ finished = <<FALSE>>
    /\ num_finished = 0
    /\ num = 0
    /\ brightness = 0
    /\ hw = HwNew("Low", "Low")
    /\ SIGINT = FALSE
    /\ pc = "cycle"
    /\ i = 1
    /\ dt = 0
    /\ exit = "none"
    /\ last = NoCall
    /\ afterSig = [rendered |-> 0, written |-> 0]
    /\ timer = <<>> /\ now = 0 /\ ticks = <<>>

\* display.render_frame(dt).  A Cycle at the front of the queue that panics
\* unwinds out of render_frame: nothing is returned and the thread is gone.
CycleDisplayRender ==
    /\ pc = "cycle"
    /\ Len(ticks) < MaxTicks
    /\ \E d \in TickDts(built[1].generators[1].gen.cycle_period) :
          LET disp == displays[1]
              c == cycle_render_frame(Head(disp.generators).gen, disp.frame, d)
              r == render_frame(disp, d, [g \in GenIds(disp) |-> "Ok"])
          IN /\ dt' = d
             /\ ticks' = Append(ticks, d)
             /\ IF disp.generators # <<>> /\ c.panic
                THEN /\ displays' = <<[disp EXCEPT !.generators = Tail(@),
                                                   !.frame = c.frame]>>
                     /\ last' = Call("render", 1, <<c.gen.id>>, <<>>, "Panic")
                     /\ pc' = "panicked"
                ELSE /\ displays' = <<r.d>>
                     /\ last' = Call("render", 1, r.calls, <<>>, r.state)
                     /\ pc' = pc
    /\ UNCHANGED <<timer, now, built, sink, finished, num_finished, num,
                   brightness, hw, SIGINT, i, exit, afterSig>>

NextCycle == CycleDisplayRender

SpecCycle == InitCycle /\ [][NextCycle]_vars

----------------------------------------------------------------------------
(* One generator or filter on its own: constructed, ticked with a frame,   *)
(* reset.  The Display record only holds the component and the frame.      *)

Filters == {"Breath", "Strobe"}

Components ==
    {CycleNew(1, P, CyclePalette) : P \in 1..MaxPeriod}
        \cup {RainbowNew(2 * L, L, step) : L \in 1..MaxPeriod, step \in {1, 2}}
        \cup {AnimBreathNew(2 * D, D, CyclePalette) : D \in 1..MaxPeriod}
        \cup {BreathNew(D) : D \in (1..MaxPeriod) \cup {2 * MaxTicks}}
        \cup {StrobeNew(P, 1) : P \in 1..MaxPeriod}

\* the period the component was configured with
PeriodOf(c) ==
    CASE c.type = "Cycle" -> c.cycle_period
      [] c.type = "Rainbow" -> c.rainbow_length
      [] c.type = "Strobe" -> c.period
      [] OTHER -> c.dur

Holder(c, size) ==
    IF c.type \in Filters
    THEN [DisplayNew(1, BrDen, size, FALSE, <<>>, <<c>>, 1) EXCEPT !.frame = Painted(@)]
    ELSE [DisplayNew(1, BrDen, size, FALSE, <<Trigger>>, <<>>, 1)
             EXCEPT !.generators = <<[gen |-> c, rt |-> Trigger]>>]

Comp ==
    IF displays[1].filters # <<>> THEN displays[1].filters[1]
    ELSE displays[1].generators[1].gen

WithComp(d, c, frame) ==
    IF c.type \in Filters
    THEN [d EXCEPT !.filters = <<c>>, !.frame = frame]
    ELSE [d EXCEPT !.generators = <<[gen |-> c, rt |-> Trigger]>>, !.frame = frame]

\* render_frame / filter_frame of the component, whatever its type
component_tick(c, frame, d) ==
    CASE c.type = "Cycle" ->
            [comp |-> cycle_render_frame(c, frame, d).gen,
             frame |-> cycle_render_frame(c, frame, d).frame,
             state |-> "Ok",
             panic |-> cycle_render_frame(c, frame, d).panic]
      [] c.type = "Rainbow" -> rainbow_render_frame(c, frame, d)
      [] c.type = "BreathGen" -> anim_breath_render_frame(c, frame, d)
      [] OTHER ->
            [comp |-> filter_frame(c, frame, d).filter,
             frame |-> filter_frame(c, frame, d).frame,
             state |-> filter_frame(c, frame, d).state,
             panic |-> FALSE]

\* reset() of the component, whatever its type
component_reset(c) ==
    CASE c.type = "Cycle" -> cycle_reset(c)
      [] c.type = "Rainbow" -> rainbow_reset(c)
      [] c.type = "BreathGen" -> anim_breath_reset(c)
      [] OTHER -> filter_reset(c)

InitGen ==
    /\ sink = "null"
    /\ \E c \in Components : \E size \in {1, 3} :
          /\ built = <<c>>
          /\ displays = <<Holder(c, size)>>
    /\ finished = <<FALSE>>
    /\ num_finished = 0
    /\ num = 0
    /\ brightness = 0
    /\ hw = HwNew("Low", "Low")
    /\ SIGINT = FALSE
    /\ pc = "gen"
    /\ i = 1
    /\ dt = 0
    /\ exit = "none"
    /\ last = NoCall
    /\ afterSig = [rendered |-> 0, written |-> 0]
    /\ timer = <<>> /\ now = 0 /\ ticks = <<>>

\* one tick: render_frame(&mut frame, dt) or filter_frame(&mut frame, dt).
\* pc is "gen" until the first reset and "regen" after it.
GenTick ==
    /\ pc \in {"gen", "regen"}
    /\ Len(ticks) < MaxTicks
    /\ \E d \in TickDts(PeriodOf(Comp)) :
          LET r == component_tick(Comp, displays[1].frame, d)
          IN /\ displays' = <<WithComp(displays[1], r.comp, r.frame)>>
             /\ dt' = d
             /\ ticks' = Append(ticks, d)
             /\ last' = Call("tick", 1, 0, <<>>, IF r.panic THEN "Panic" ELSE r.state)
             /\ pc' = IF r.panic THEN "panicked" ELSE pc
    /\ UNCHANGED <<timer, now, built, sink, finished, num_finished, num,
                   brightness, hw, SIGINT, i, exit, afterSig>>

\* reset()
GenReset ==
    /\ pc = "gen"
    /\ displays' = <<WithComp(displays[1], component_reset(Comp), displays[1].frame)>>
    /\ last' = Call("reset", 1, 0, <<>>, "none")
    /\ pc' = "regen"
    /\ UNCHANGED <<timer, now, ticks, built, sink, finished, num_finished, num,
                   brightness, hw, SIGINT, i, dt, exit, afterSig>>

NextGen == GenTick \/ GenReset

SpecGen == InitGen /\ [][NextGen]_vars

----------------------------------------------------------------------------
(* Timer on its own, against a clock that only moves forward.  The tree    *)
(* holds two Timers: ranos_core::Timer ("core"), which the drawers use,    *)
(* and the one of base/src/util ("base").  target_dt is -1 for None.       *)
(* timer.pings and timer.acc count the pings returned and add up what they *)
(* returned (observation); TimerStats is left out.                         *)

TimerRevs == {"core", "base"}

\* Timer::new: ctime and ptime are two successive samples of the clock
TimerNew(rev, target_dt, c, p) ==
    [rev |-> rev, target_dt |-> target_dt, ctime |-> c, ptime |-> p, dt |-> 0,
     pings |-> 0, acc |-> 0]

InitTimer ==
    /\ sink = "null"
    /\ displays = <<>>
    /\ finished = <<>>
    /\ num_finished = 0
    /\ num = 0
    /\ brightness = 0
    /\ hw = HwNew("Low", "Low")
    /\ SIGINT = FALSE
    /\ pc = "idle"
    /\ i = 0
    /\ dt = 0
    /\ exit = "none"
    /\ last = NoCall
    /\ afterSig = [rendered |-> 0, written |-> 0]
    /\ ticks = <<>>
    /\ \E rev \in TimerRevs : \E t \in -1..MaxTarget : \E p \in 0..1 :
          /\ timer = TimerNew(rev, t, 0, p)
          /\ built = <<TimerNew(rev, t, 0, p)>>
          /\ now = p

\* the clock moves on, at any moment
Tock ==
    /\ now < MaxNow
    /\ now' = now + 1
    /\ UNCHANGED <<timer, ticks, built, sink, displays, finished, num_finished,
                   num, brightness, hw, SIGINT, pc, i, dt, exit, last, afterSig>>

\* ping() is entered.  core: self.ptime = self.ctime, then the loop or the
\* single sample; base: the busy wait comes first.
PingEnter ==
    /\ pc = "idle"
    /\ timer.pings < MaxPings
    /\ IF timer.rev = "core"
       THEN /\ timer' = [timer EXCEPT !.ptime = timer.ctime]
            /\ pc' = IF timer.target_dt >= 0 THEN "loop" ELSE "sample"
       ELSE /\ timer' = timer
            /\ pc' = IF timer.target_dt >= 0 THEN "spin" ELSE "sample"
    /\ UNCHANGED <<now, ticks, built, sink, displays, finished, num_finished,
                   num, brightness, hw, SIGINT, i, dt, exit, last, afterSig>>

\* core: while (self.ctime - self.ptime) < target_dt { self.ctime = Instant::now(); }
PingLoop ==
    /\ pc = "loop"
    /\ IF timer.ctime - timer.ptime < timer.target_dt
       THEN /\ timer' = [timer EXCEPT !.ctime = now]
            /\ pc' = "loop"
       ELSE /\ timer' = timer
            /\ pc' = "return"
    /\ UNCHANGED <<now, ticks, built, sink, displays, finished, num_finished,
                   num, brightness, hw, SIGINT, i, dt, exit, last, afterSig>>

\* base: while Instant::now() - self.ptime < target_dt {}
PingSpin ==
    /\ pc = "spin"
    /\ pc' = IF now - timer.ptime < timer.target_dt THEN "spin" ELSE "sample"
    /\ UNCHANGED <<timer, now, ticks, built, sink, displays, finished,
                   num_finished, num, brightness, hw, SIGINT, i, dt, exit, last,
                   afterSig>>

\* faulty variant: both instants are taken afresh, the time since the
\* previous ping is lost
PingSampleFresh ==
    /\ pc = "sample"
    /\ timer' = [timer EXCEPT !.ptime = now, !.ctime = now]
    /\ pc' = "return"
    /\ UNCHANGED <<now, ticks, built, sink, displays, finished, num_finished,
                   num, brightness, hw, SIGINT, i, dt, exit, last, afterSig>>

\* core without a target: self.ctime = Instant::now();
\* base: self.ptime = self.ctime; self.ctime = Instant::now();
PingSample ==
    /\ pc = "sample"
    /\ timer' = IF timer.rev = "core"
                THEN [timer EXCEPT !.ctime = now]
                ELSE [timer EXCEPT !.ptime = timer.ctime, !.ctime = now]
    /\ pc' = "return"
    /\ UNCHANGED <<now, ticks, built, sink, displays, finished, num_finished,
                   num, brightness, hw, SIGINT, i, dt, exit, last, afterSig>>

\* self.dt = self.ctime - self.ptime; self.dt
PingReturn ==
    /\ pc = "return"
    /\ timer' = [timer EXCEPT !.dt = timer.ctime - timer.ptime,
                              !.pings = @ + 1,
                              !.acc = @ + (timer.ctime - timer.ptime)]
    /\ dt' = timer.ctime - timer.ptime
    /\ last' = Call("ping", 0, 0, <<>>, "none")
    /\ pc' = "idle"
    /\ UNCHANGED <<now, ticks, built, sink, displays, finished, num_finished,
                   num, brightness, hw, SIGINT, i, exit, afterSig>>

\* core: Timer::reset, *self = Timer::new(self.target_dt); built holds the
\* Timer as last constructed or reset
TimerReset ==
    /\ pc = "idle"
    /\ timer.rev = "core"
    /\ \E p \in {now, Min(now + 1, MaxNow)} :
          /\ timer' = TimerNew(timer.rev, timer.target_dt, now, p)
          /\ built' = <<TimerNew(timer.rev, timer.target_dt, now, p)>>
          /\ now' = p
    /\ last' = Call("reset", 0, 0, <<>>, "none")
    /\ UNCHANGED <<ticks, sink, displays, finished, num_finished, num,
                   brightness, hw, SIGINT, pc, i, dt, exit, afterSig>>

NextTimer ==
    Tock \/ PingEnter \/ PingLoop \/ PingSpin \/ PingSample \/ PingReturn \/ TimerReset

SpecTimer == InitTimer /\ [][NextTimer]_vars

----------------------------------------------------------------------------
(* RGB::from_tuple and RGB::as_tuple applied to a channel triple.  built   *)
(* holds the triple and the order; last.res the value of the last call.    *)

ChannelSet == {0, 1, 130, 255}

InitRGB ==
    /\ sink = "null"
    /\ displays = <<>>
    /\ finished = <<>>
    /\ num_finished = 0
    /\ num = 0
    /\ brightness = 0
    /\ hw = HwNew("Low", "Low")
    /\ SIGINT = FALSE
    /\ pc = "rgb"
    /\ i = 0
    /\ dt = 0
    /\ exit = "none"
    /\ last = NoCall
    /\ afterSig = [rendered |-> 0, written |-> 0]
    /\ timer = <<>> /\ now = 0 /\ ticks = <<>>
    /\ \E x \in ChannelSet \X ChannelSet \X ChannelSet : \E o \in RGBOrders :
          built = <<x, o>>

\* let c = RGB::from_tuple(x, o)
FromTuple ==
    /\ pc = "rgb"
    /\ last' = Call("from_tuple", 0, 0, from_tuple(built[1], built[2]), "none")
    /\ pc' = "made"
    /\ UNCHANGED <<timer, now, ticks, built, sink, displays, finished,
                   num_finished, num, brightness, hw, SIGINT, i, dt, exit,
                   afterSig>>

\* c.as_tuple(o)
AsTuple ==
    /\ pc = "made"
    /\ last' = Call("as_tuple", 0, 0, as_tuple(last.res, built[2]), "none")
    /\ pc' = "read"
    /\ UNCHANGED <<timer, now, ticks, built, sink, displays, finished,
                   num_finished, num, brightness, hw, SIGINT, i, dt, exit,
                   afterSig>>

NextRGB == FromTuple \/ AsTuple

SpecRGB == InitRGB /\ [][NextRGB]_vars

----------------------------------------------------------------------------
(* One Frame: constructed, its brightness set, replaced by one read from a *)
(* reader.  Brightness values are k / BrDen; the inputs go beyond [0, 1].  *)

BrightnessInputs == -1..(BrDen + 1)

FrameSizes == 0..2

InitFrame ==
    /\ sink = "null"
    /\ \E k \in BrightnessInputs : \E size \in FrameSizes :
          displays = <<[DisplayNew(1, 0, 0, FALSE, <<>>, <<>>, 1)
                           EXCEPT !.frame = FrameNew(k, size)]>>
    /\ finished = <<FALSE>>
    /\ num_finished = 0
    /\ num = 0
    /\ brightness = 0
    /\ hw = HwNew("Low", "Low")
    /\ SIGINT = FALSE
    /\ pc = "frame"
    /\ i = 1
    /\ dt = 0
    /\ exit = "none"
    /\ last = Call("new", 1, 0, <<>>, "none")
    /\ afterSig = [rendered |-> 0, written |-> 0]
    /\ timer = <<>> /\ now = 0 /\ ticks = <<>> /\ built = <<>>

\* frame.set_brightness(k)
FrameSetBrightness ==
    /\ pc = "frame"
    /\ \E k \in BrightnessInputs :
          /\ displays' = <<[displays[1] EXCEPT
                               !.frame = frame_set_brightness(@, k)]>>
          /\ last' = Call("set_brightness", 1, k, <<>>, "none")
    /\ UNCHANGED <<timer, now, ticks, built, sink, finished, num_finished, num,
                   brightness, hw, SIGINT, pc, i, dt, exit, afterSig>>

\* frame = Frame::read(&mut reader)?
FrameRead ==
    /\ pc = "frame"
    /\ \E k \in BrightnessInputs : \E len \in FrameSizes : \E m \in FrameSizes :
          LET r == frame_read(k, len, [n \in 1..m |-> ColorOf(n)])
          IN /\ displays' = IF r.ok THEN <<[displays[1] EXCEPT !.frame = r.frame]>>
                                    ELSE displays
             /\ last' = Call("read", 1, k, <<>>, IF r.ok THEN "Ok" ELSE "Err")
    /\ UNCHANGED <<timer, now, ticks, built, sink, finished, num_finished, num,
                   brightness, hw, SIGINT, pc, i, dt, exit, afterSig>>

NextFrame == FrameSetBrightness \/ FrameRead

SpecFrame == InitFrame /\ [][NextFrame]_vars

----------------------------------------------------------------------------
(* base::draw::SpeedPiDraw: the hardware sink that spreads the bits of a   *)
(* 32-bit word over four data/clock pin pairs.  hw.lanes[p] holds the bits *)
(* clocked out on pair p, oldest first.  A u32 is held as its four bytes,   *)
(* most significant first.                                                 *)

\* the frames handed to write_frame: one or two pixels
SpeedFrames ==
    UNION {[brightness : 0..BrDen, leds : [1..n -> [1..3 -> {0, 130, 255}]]] :
              n \in 1..2}

\* Frame::brightness_apa102c: (brightness.min(1.0).max(0.0) * 0x1F as f32) as u8
brightness_apa102c(frame) ==
    (Max(Min(frame.brightness, BrDen), 0) * MaxHwBrightness) \div BrDen

\* bit_to_level(data: u32): the level of bit 31
speed_bit_to_level(data) == IF data[1] \div 128 # 0 THEN 1 ELSE 0

\* data <<= 1 on a u32
shl1(data) ==
    [k \in 1..4 |-> ((2 * data[k]) % 256) + (IF k < 4 THEN data[k + 1] \div 128 ELSE 0)]

\* for i in 0..32 { data[i%4].write(..); clock[i%4].toggle() twice; data <<= 1 }
RECURSIVE Write32Loop(_, _, _)
Write32Loop(lanes, data, n) ==
    IF n = 32 THEN lanes
    ELSE CHOOSE r \in
            {Write32Loop(l, d, n + 1) :
                l \in {[lanes EXCEPT ![(n % 4) + 1] = Append(@, speed_bit_to_level(data))]},
                d \in {shl1(data)}} : TRUE

write_32(lanes, data) == CHOOSE r \in {Write32Loop(l, data, 0) : l \in {lanes}} : TRUE

\* the word write_frame builds for one pixel: (0xE0 | brightness) << 24 |
\* color.0 << 16 | color.1 << 8 | color.0 << 0
speed_word(frame, led) ==
    LET color == as_tuple(led, "BGR")
    IN <<OrE0(brightness_apa102c(frame)), color[1], color[2], color[1]>>

RECURSIVE SpeedFrameLoop(_, _, _)
SpeedFrameLoop(lanes, frame, n) ==
    IF n > Len(frame.leds) THEN lanes
    ELSE CHOOSE r \in
            {SpeedFrameLoop(l, frame, n + 1) :
                l \in {write_32(lanes, speed_word(frame, frame.leds[n]))}} : TRUE

\* end_frame: for _ in 0..(len >> 4) { self.write_32(0x00_00_00_00); }
RECURSIVE speed_end_frame(_, _)
speed_end_frame(lanes, n) ==
    IF n = 0 THEN lanes
    ELSE CHOOSE r \in {speed_end_frame(l, n - 1) :
                          l \in {write_32(lanes, <<0, 0, 0, 0>>)}} : TRUE

\* start_frame (the pins are driven low, then one zero word), the pixels,
\* then end_frame
speed_write_frame(lanes, frame) ==
    LET started == write_32(lanes, <<0, 0, 0, 0>>)
    IN speed_end_frame(SpeedFrameLoop(started, frame, 1), Len(frame.leds) \div 16)

InitSpeed ==
    /\ sink = "pi"
    /\ displays = <<>>
    /\ finished = <<>>
    /\ num_finished = 0
    /\ num = 0
    /\ brightness = 0
    /\ hw = [lanes |-> <<<<>>, <<>>, <<>>, <<>>>>]
    /\ SIGINT = FALSE
    /\ pc = "speed"
    /\ i = 0
    /\ dt = 0
    /\ exit = "none"
    /\ last = NoCall
    /\ afterSig = [rendered |-> 0, written |-> 0]
    /\ timer = <<>> /\ now = 0 /\ ticks = <<>>
    /\ \E frame \in SpeedFrames : built = <<frame>>

\* self.write_frame(ani.frame()); hw.lanes holds what this call clocks out
SpeedWriteFrame ==
    /\ pc = "speed"
    /\ hw' = [lanes |-> speed_write_frame(<<<<>>, <<>>, <<>>, <<>>>>, built[1])]
    /\ last' = Call("write_frame", 0, Len(built[1].leds), <<>>, "none")
    /\ UNCHANGED <<timer, now, ticks, built, sink, displays, finished, num_finished,
                   num, brightness, SIGINT, pc, i, dt, exit, afterSig>>

NextSpeed == SpeedWriteFrame

SpecSpeed == InitSpeed /\ [][NextSpeed]_vars

----------------------------------------------------------------------------
(* base::app::App::run over a drawer of the base crate.  `sink` is the     *)
(* drawer, `displays` its queue of animations, `built` the animation its   *)
(* run() has popped and is updating, `ticks` the Vec `out` that run()      *)
(* returns, finished[1] the App's looping flag.  i is the id of the        *)
(* animation that was being updated when the flag SIGINT was first set     *)
(* during an update (0: none yet).                                         *)

\* an animation with a running time: Rainbow::new and the like
AnimationNew(id, runtime) == [id |-> id, runtime |-> runtime, time_remaining |-> runtime]

\* Animation::update: time_remaining.checked_sub(dt), or zero
animation_update(ani, d) ==
    [ani EXCEPT !.time_remaining = Max(checked_sub(@, d), 0)]

\* Animation::reset: self.time_remaining = *self.runtime.get()
animation_reset(ani) == [ani EXCEPT !.time_remaining = ani.runtime]

AnimationQueues ==
    {<<AnimationNew(1, r)>> : r \in {1, MaxTime}}
      \cup {<<AnimationNew(1, r1), AnimationNew(2, r2)>> : r1, r2 \in {1, MaxTime}}

InitApp ==
    /\ sink \in Sinks
    /\ displays \in AnimationQueues
    /\ finished \in {<<TRUE>>, <<FALSE>>}
    /\ built = <<>>
    /\ ticks = <<>>
    /\ num_finished = 0
    /\ num = 0
    /\ brightness = 0
    /\ hw = HwNew("Low", "Low")
    /\ SIGINT = FALSE
    /\ pc = "app"
    /\ i = 0
    /\ dt = 0
    /\ exit = "none"
    /\ last = NoCall
    /\ afterSig = [rendered |-> 0, written |-> 0]
    /\ timer = <<>> /\ now = 0

\* App::run: let anis = self.drawer.run(); the drawer starts with an empty out
AppRun ==
    /\ pc = "app"
    /\ ticks' = <<>>
    /\ pc' = "pop"
    /\ last' = Call("run", 0, 0, <<>>, "none")
    /\ UNCHANGED <<timer, now, built, sink, displays, finished, num_finished, num,
                   brightness, hw, SIGINT, i, dt, exit, afterSig>>

\* Draw::run: while let Some(mut ani) = self.queue.pop_front(); with the
\* queue empty run() returns
DrawPop ==
    /\ pc = "pop"
    /\ IF displays # <<>>
       THEN /\ built' = <<Head(displays)>>
            /\ displays' = Tail(displays)
            /\ pc' = "update"
            /\ last' = Call("pop", Head(displays).id, 0, <<>>, "none")
       ELSE /\ built' = built
            /\ displays' = displays
            /\ pc' = "appcheck"
            /\ last' = Call("return", 0, 0, <<>>, "none")
    /\ UNCHANGED <<timer, now, ticks, sink, finished, num_finished, num,
                   brightness, hw, SIGINT, i, dt, exit, afterSig>>

\* while ani.time_remaining() > zero_duration { ani.update(self.timer.ping()); .. }
DrawUpdate ==
    /\ pc = "update"
    /\ built[1].time_remaining > 0
    /\ \E d \in DtSet :
          /\ built' = <<animation_update(built[1], d)>>
          /\ dt' = d
    /\ i' = IF i = 0 /\ SIGINT THEN built[1].id ELSE i
    /\ last' = Call("update", built[1].id, 0, <<>>, IF SIGINT THEN "set" ELSE "clear")
    /\ UNCHANGED <<timer, now, ticks, sink, displays, finished, num_finished, num,
                   brightness, hw, SIGINT, pc, exit, afterSig>>

\* the animation has no time left.  NullDraw, TermDraw: out.push(ani), on to
\* the next animation.  APA102CPiDraw: the animation is dropped and the flag
\* is looked at.
DrawEnd ==
    /\ pc = "update"
    /\ built[1].time_remaining = 0
    /\ built' = <<>>
    /\ IF sink = "pi"
       THEN /\ ticks' = ticks
            /\ pc' = "sigcheck"
       ELSE /\ ticks' = Append(ticks, built[1])
            /\ pc' = "pop"
    /\ last' = Call("end", built[1].id, 0, <<>>, "none")
    /\ UNCHANGED <<timer, now, sink, displays, finished, num_finished, num,
                   brightness, hw, SIGINT, i, dt, exit, afterSig>>

\* APA102CPiDraw::run: if self.should_exit.load(..) == true { stop; return Err(..) }
DrawSigCheck ==
    /\ pc = "sigcheck"
    /\ pc' = IF SIGINT THEN "appcheck" ELSE "pop"
    /\ last' = Call("check", 0, 0, <<>>, IF SIGINT THEN "set" ELSE "clear")
    /\ UNCHANGED <<timer, now, ticks, built, sink, displays, finished, num_finished,
                   num, brightness, hw, SIGINT, i, dt, exit, afterSig>>

\* App::run after drawer.run() has returned: return on SIGINT; else, looping,
\* reset and push back every returned animation and run again; else break
AppCheck ==
    /\ pc = "appcheck"
    /\ IF SIGINT
       THEN /\ pc' = "exited"
            /\ exit' = "sigint"
            /\ displays' = displays
       ELSE IF finished[1]
            THEN /\ pc' = "app"
                 /\ exit' = exit
                 /\ displays' = displays \o [n \in DOMAIN ticks |-> animation_reset(ticks[n])]
            ELSE /\ pc' = "exited"
                 /\ exit' = "complete"
                 /\ displays' = displays
    /\ last' = Call("appcheck", 0, 0, <<>>, IF SIGINT THEN "set" ELSE "clear")
    /\ UNCHANGED <<timer, now, ticks, built, sink, finished, num_finished, num,
                   brightness, hw, SIGINT, i, dt, afterSig>>

NextApp ==
    AppRun \/ DrawPop \/ DrawUpdate \/ DrawEnd \/ DrawSigCheck \/ AppCheck \/ Signal

\* the main thread keeps running; nothing is assumed about the signal
AppStep == AppRun \/ DrawPop \/ DrawUpdate \/ DrawEnd \/ DrawSigCheck \/ AppCheck

SpecApp == InitApp /\ [][NextApp]_vars /\ WF_vars(AppStep)

----------------------------------------------------------------------------
(* Properties of Display::render_frame, checked under SpecDisplay *)

Disp == displays[1]
Queue == displays[1].generators
AllOk == [g \in GenIds(displays[1]) |-> "Ok"]

\* C1: for a Display whose queue holds two generators with Time policies T1
\* and T2, both returning Ok, one call render_frame(T1 + T2/2) leaves the
\* second generator at the front with exactly T2/2 remaining, and the
\* Display is then in the state the two calls render_frame(T1),
\* render_frame(T2/2) reach.
C1_DtForwarded ==
    [][(/\ pc = "display"
        /\ last'.op = "render"
        /\ Len(Queue) = 2
        /\ Queue[1].rt.type = "Time"
        /\ Queue[2].rt.type = "Time"
        /\ last'.res = AllOk
        /\ 2 * (dt' - Queue[1].rt.t) = Queue[2].rt.t)
       => (/\ Len(displays'[1].generators) >= 1
           /\ displays'[1].generators[1].gen.id = Queue[2].gen.id
           /\ 2 * displays'[1].generators[1].rt.t = Queue[2].rt.t
           /\ displays'[1] =
                render_frame(render_frame(Disp, Queue[1].rt.t, AllOk).d,
                             dt' - Queue[1].rt.t, AllOk).d)]_vars

\* C9 as claimed: render_frame on a Display whose generator queue is empty
\* returns Err.
C9_EmptyQueueIsErr ==
    [][(pc = "display" /\ last'.op = "render" /\ Queue = <<>>)
       => last'.state = "Err"]_vars

\* C9 as amended: render_frame on a Display whose generator queue is empty
\* returns Done, the completion state, and leaves the Display as it was.
C9_EmptyQueueIsDone ==
    [][(pc = "display" /\ last'.op = "render" /\ Queue = <<>>)
       => (last'.state = "Done" /\ displays' = displays)]_vars

\* render_frame has been called on an empty queue: no generator was there to
\* return a state
C9_Witness ==
    /\ pc = "display"
    /\ last.op = "render"
    /\ last.res = <<>>
    /\ last.state = "Done"

\* C10: when the front generator returns Ok under Time(r) and dt <= r, then
\* after render_frame the same generator is at the front with Time(r - dt),
\* the rest of the queue is unchanged and the call reports continue (Ok).
C10_TimeCountsDown ==
    [][(/\ pc = "display"
        /\ last'.op = "render"
        /\ Queue # <<>>
        /\ Queue[1].rt.type = "Time"
        /\ last'.res[Queue[1].gen.id] = "Ok"
        /\ dt' <= Queue[1].rt.t)
       => (/\ Len(displays'[1].generators) = Len(Queue)
           /\ displays'[1].generators[1].gen.id = Queue[1].gen.id
           /\ displays'[1].generators[1].rt.type = "Time"
           /\ displays'[1].generators[1].rt.t = Queue[1].rt.t - dt'
           /\ Tail(displays'[1].generators) = Tail(Queue)
           /\ last'.state = "Ok")]_vars

\* a timed generator that returned Ok is at the front with part of its
\* time used up, and a second generator waits behind it
C10_Witness ==
    /\ pc = "display"
    /\ last.op = "render"
    /\ last.state = "Ok"
    /\ dt > 0
    /\ Len(Queue) = 2
    /\ Queue[1].rt.type = "Time"
    /\ last.res[Queue[1].gen.id] = "Ok"
    /\ Queue[1].rt.t + dt = Disp.original_runtimes[Queue[1].gen.id].t

----------------------------------------------------------------------------
(* Properties of the wire encoding, checked under SpecSink and SpecByte *)

CeilDiv(n, d) == (n + d - 1) \div d

Zeros(k) == [n \in 1..k |-> 0]

SentFrame == displays[1].frame
SentLen == Len(displays[1].frame.leds)

\* the four bytes the strip received for pixel n of a transmitted frame
PixelGroup(wire, n) == SubSeq(wire, 4 * n + 1, 4 * n + 4)

\* C3: for every frame length N >= 0 one frame transmission (write_frame,
\* and likewise stop) emits exactly 4 + 4N + ceil(N/16) bytes: 4 zero start
\* bytes, 4 bytes per pixel, then ceil(N/16) zero trailer bytes.
C3_FrameLength ==
    last.op \in {"write", "stop"}
    => (/\ Len(hw.wire) = 4 + 4 * SentLen + CeilDiv(SentLen, 16)
        /\ SubSeq(hw.wire, 1, 4) = Zeros(4)
        /\ SubSeq(hw.wire, 4 + 4 * SentLen + 1, Len(hw.wire))
             = Zeros(CeilDiv(SentLen, 16)))

\* C4 as claimed: for every pixel of a written frame and every hardware
\* brightness b in 0..31, write_frame emits the control byte 0xE0 | b (top
\* three bits 1, low five bits b) followed by that pixel's blue, green and
\* red channel bytes, in the frame's pixel order.
C4_PixelBytesUnscaled ==
    last.op = "write"
    => (/\ Len(hw.wire) >= 4 + 4 * SentLen
        /\ \A n \in 1..SentLen :
              LET g == PixelGroup(hw.wire, n)
                  p == SentFrame.leds[n]
              IN /\ g[1] \div 32 = 7
                 /\ g[1] % 32 = brightness
                 /\ <<g[2], g[3], g[4]>> = <<p[3], p[2], p[1]>>)

\* C4 as amended: the control byte 0xE0 | b is followed by the blue, green
\* and red channel of that pixel scaled by the frame's software brightness:
\* each channel multiplied by the brightness (a scalar in [0, 1]) and
\* truncated to a byte.
C4_PixelBytesScaled ==
    last.op = "write"
    => (/\ Len(hw.wire) >= 4 + 4 * SentLen
        /\ \A n \in 1..SentLen :
              LET g == PixelGroup(hw.wire, n)
                  p == SentFrame.leds[n]
                  k == SentFrame.brightness
              IN /\ g[1] \div 32 = 7
                 /\ g[1] % 32 = brightness
                 /\ g[2] = (p[3] * k) \div BrDen
                 /\ g[3] = (p[2] * k) \div BrDen
                 /\ g[4] = (p[1] * k) \div BrDen)

\* a frame of several different pixels has been written at a software
\* brightness strictly between 0 and 1
C4_Witness ==
    /\ pc = "sink"
    /\ last.op = "write"
    /\ SentLen >= 3
    /\ SentFrame.brightness \in 1..(BrDen - 1)
    /\ brightness = 17
    /\ PixelGroup(hw.wire, 2) # PixelGroup(hw.wire, 3)

\* C5: write_byte transmits the bits of a byte from bit 7 down to bit 0; for
\* each bit the data line is set to the bit's level and the clock is then
\* toggled exactly twice before the next data write: 8 data writes
\* interleaved with 16 clock toggles.  Started with the clock low, the strip
\* receives exactly that byte.
C5_ByteBits ==
    last.op = "write_byte"
    => (/\ Len(hw.ops) = 24
        /\ \A j \in 0..7 :
              /\ hw.ops[3 * j + 1] =
                    (IF (last.arg \div Pow2(7 - j)) % 2 = 1 THEN "High" ELSE "Low")
              /\ hw.ops[3 * j + 2] = "toggle"
              /\ hw.ops[3 * j + 3] = "toggle"
        /\ Cardinality({n \in 1..24 : hw.ops[n] \in Levels}) = 8
        /\ Cardinality({n \in 1..24 : hw.ops[n] = "toggle"}) = 16
        /\ hw.wire = <<last.arg>>
        /\ hw.clock = "Low")

\* the byte 0xA5, whose bits alternate unevenly, has been written
C5_Witness ==
    /\ pc = "byte"
    /\ last.op = "write_byte"
    /\ last.arg = 165
    /\ hw.ops[1] = "High"
    /\ hw.ops[4] = "Low"

----------------------------------------------------------------------------
(* Properties of Draw::run and of the drop that follows it, checked under  *)
(* Spec and SpecLive                                                       *)

\* what the strip received since start_frame was last entered
LastFrame == SubSeq(hw.wire, hw.frameStart + 1, Len(hw.wire))

\* C2: after any run of the hardware sink followed by its destruction (run
\* ended by normal completion, by a Display error or by the cancellation
\* flag) the last frame on the wire is the stop frame: a start frame, then
\* for every pixel the four bytes 0xE0, 0, 0, 0, then the end frame (zero
\* bytes); nothing is transmitted after it.
C2_StopFrameLast ==
    (sink = "pi" /\ pc = "dropped")
    => (/\ last.op = "drop"
        /\ \E k \in 0..Len(hw.wire) :
              LastFrame = Zeros(4) \o Rep(SumLen(displays), <<224, 0, 0, 0>>)
                          \o Zeros(k))

\* the hardware sink was dropped after a run that the cancellation flag
\* ended while a lit frame was on the strip
C2_Witness ==
    /\ sink = "pi"
    /\ pc = "dropped"
    /\ exit = "sigint"
    /\ SumLen(displays) > MaxLen
    /\ \E n \in 1..hw.frameStart : hw.wire[n] = 130

\* likewise after a Display error, and after normal completion
C2_WitnessError ==
    sink = "pi" /\ pc = "dropped" /\ exit = "error" /\ hw.frameStart > 0

C2_WitnessComplete ==
    sink = "pi" /\ pc = "dropped" /\ exit = "complete" /\ hw.frameStart > 0

\* the pixel groups of a sequence of Displays, concatenated in order
RECURSIVE PixelBytes(_, _)
PixelBytes(frame, n) ==
    IF n > Len(frame.leds) THEN <<>>
    ELSE LET p == frame.leds[n]
             k == frame.brightness
         IN <<224 + (brightness % 32), (p[3] * k) \div BrDen, (p[2] * k) \div BrDen,
              (p[1] * k) \div BrDen>> \o PixelBytes(frame, n + 1)

RECURSIVE AllPixelBytes(_)
AllPixelBytes(ds) ==
    IF ds = <<>> THEN <<>>
    ELSE PixelBytes(Head(ds).frame, 1) \o AllPixelBytes(Tail(ds))

\* C6: within one tick of a hardware-sink run with two or more Displays the
\* wire carries one start frame, then the pixel groups of every Display
\* concatenated in display order, then one end frame computed from the total
\* pixel count N; no start or end frame lies between two Displays' pixels.
C6_OneFramePerTick ==
    (sink = "pi" /\ pc = "check" /\ i = Len(displays) /\ Len(displays) >= 2)
    => \E k \in {SumLen(displays) \div 16, CeilDiv(SumLen(displays), 16)} :
          hw.wire = Zeros(4) \o AllPixelBytes(displays) \o Zeros(k)

\* C7: in the hardware sink's run loop the cancellation flag is read once
\* per Display per tick, right after that Display's frame write; once the
\* flag is set at most one further Display is rendered and written before
\* run() returns, and a read that finds it set returns.
C7_SigintBounded ==
    sink = "pi"
    => (/\ afterSig.rendered <= 1
        /\ afterSig.written <= 1
        /\ (pc = "check" => (last.op = "write" /\ last.disp = i))
        /\ (last.op = "check" => (/\ (last.state = "set" => pc = "returned")
                                  /\ (last.state = "clear" => pc # "returned"))))

\* the flag was set after the first of two Displays had been checked; the
\* second was rendered and written, and run() returned at its check
C7_Witness ==
    /\ sink = "pi"
    /\ pc = "returned"
    /\ exit = "sigint"
    /\ Len(displays) = 2
    /\ i = 2
    /\ afterSig = [rendered |-> 1, written |-> 1]

\* C8: for every sink (hardware, terminal, null), if the interrupt signal
\* sets the cancellation flag while run() is executing, run() eventually
\* returns, also when a Display is looping.
C8_SigintLeadsToReturn ==
    (SIGINT /\ pc \in {"ping", "render", "write", "check"})
        ~> (pc \in {"returned", "dropped"})

----------------------------------------------------------------------------
(* Further properties of Display::render_frame, checked under SpecDisplay *)

\* which generators are queued, in which order, under which policy
QueueShape(q) == [n \in DOMAIN q |-> [id |-> q[n].gen.id, rt |-> q[n].rt]]

\* a render_frame call is being made on a non-empty queue
RenderCall == pc = "display" /\ last'.op = "render" /\ Queue # <<>>

\* the state the front generator returns in that call
FrontOut == last'.res[Queue[1].gen.id]

\* C11: when the front generator's Time slot underflows (dt greater than its
\* remaining time) in a looping Display, the generator is moved to the back
\* of the queue in its reset state and with policy Time(original configured
\* duration), not with the partly consumed remaining time.
C11_RequeuedResetOriginal ==
    [][(/\ RenderCall
        /\ Disp.looping
        /\ Queue[1].rt.type = "Time"
        /\ FrontOut = "Ok"
        /\ dt' > Queue[1].rt.t)
       => LET q == displays'[1].generators
          IN /\ q # <<>>
             /\ q[Len(q)].gen.id = Queue[1].gen.id
             /\ q[Len(q)].rt = Disp.original_runtimes[Queue[1].gen.id]
             /\ q[Len(q)].gen.fresh]_vars

\* C12: in a non-looping Display the render_frame call in which the last
\* remaining generator's Time slot underflows reports completion (Done) in
\* that same call; every call that leaves a generator in the queue reports
\* continue (Ok).
C12_DoneInSameCall ==
    [][(/\ RenderCall
        /\ ~Disp.looping
        /\ Queue[1].rt.type = "Time"
        /\ FrontOut = "Ok")
       => (/\ (Len(Queue) = 1 /\ dt' > Queue[1].rt.t) => last'.state = "Done"
           /\ displays'[1].generators # <<>> => last'.state = "Ok")]_vars

\* C13: a generator with policy Trigger that returns Ok stays at the front
\* of the queue over any number of render_frame calls, each of which reports
\* continue and leaves the queue unchanged; the queue advances only when
\* trigger_next_generator is called.
C13_TriggerStays ==
    [][(/\ RenderCall
        /\ Queue[1].rt.type = "Trigger"
        /\ FrontOut = "Ok")
       => (/\ QueueShape(displays'[1].generators) = QueueShape(Queue)
           /\ last'.state = "Ok")]_vars

\* C14: when the front generator returns ErrRetry, render_frame is invoked
\* again at once with the same dt and the retry drives the same generator:
\* it is still at the front of the queue and no generator has been removed
\* by the retry.
C14_RetrySameGenerator ==
    [][(/\ RenderCall
        /\ FrontOut = "ErrRetry")
       => (/\ Len(last'.arg) >= 2
           /\ last'.arg[2] = Queue[1].gen.id
           /\ \E n \in DOMAIN displays'[1].generators :
                 displays'[1].generators[n].gen.id = Queue[1].gen.id)]_vars

\* C15: when the front generator returns ErrSkip, the generator queue after
\* render_frame is identical to the queue before the call (same generators,
\* same order, same runtime policies and remaining times) and the call
\* reports continue (Ok).
C15_SkipKeepsQueue ==
    [][(/\ RenderCall
        /\ FrontOut = "ErrSkip")
       => (/\ QueueShape(displays'[1].generators) = QueueShape(Queue)
           /\ displays'[1].generators = Queue
           /\ last'.arg = <<Queue[1].gen.id>>
           /\ last'.state = "Ok")]_vars

\* the front generator of a queue of two, part of its time already used up,
\* has just returned ErrSkip to a call with dt > 0
C15_Witness ==
    /\ pc = "display"
    /\ last.op = "render"
    /\ last.state = "Ok"
    /\ dt > 0
    /\ Len(Queue) = 2
    /\ last.arg = <<Queue[1].gen.id>>
    /\ last.res[Queue[1].gen.id] = "ErrSkip"
    /\ Queue[1].rt.type = "Time"
    /\ Queue[1].rt.t < Disp.original_runtimes[Queue[1].gen.id].t

\* C16: when the front generator returns ErrFatal, Display::render_frame
\* returns Err to its caller.
C16_FatalIsErr ==
    [][(/\ RenderCall
        /\ FrontOut = "ErrFatal")
       => (last'.state = "Err" /\ last'.arg = <<Queue[1].gen.id>>)]_vars

\* the front generator has just returned ErrFatal while another generator
\* was queued behind it
C16_Witness ==
    /\ pc = "display"
    /\ last.op = "render"
    /\ last.state = "Err"
    /\ Len(last.arg) = 1
    /\ last.res[last.arg[1]] = "ErrFatal"
    /\ Queue # <<>>

----------------------------------------------------------------------------
(* Further properties of Draw::run, checked under Spec *)

\* C17: if any Display's render_frame returns Err during a tick, run()
\* returns at once: that call is the last thing run() does, so no Display
\* later in the fixed order is rendered or written in that tick, the failed
\* Display is not written and no further tick starts.  Only the drop of the
\* drawer can follow.
C17_ErrEndsRun ==
    /\ (last.op = "render" /\ last.state = "Err")
          => (pc = "returned" /\ exit = "error")
    /\ exit = "error"
          => \/ (pc = "returned" /\ last.op = "render" /\ last.state = "Err")
             \/ (pc = "dropped" /\ last.op = "drop")

\* the first of two Displays failed: run() has returned and the second
\* Display, which has not finished, was not rendered in that tick
C17_Witness ==
    /\ sink = "term"
    /\ pc = "returned"
    /\ exit = "error"
    /\ Len(displays) = 2
    /\ last.op = "render"
    /\ last.disp = 1
    /\ i = 1
    /\ ~finished[2]
    /\ displays[2].generators # <<>>

----------------------------------------------------------------------------
(* Properties of the filters, checked under SpecDisplay and SpecFilter *)

\* the filters of a list applied one after the other, in list order, to a
\* frame
RECURSIVE ApplyFilters(_, _, _)
ApplyFilters(fs, frame, d) ==
    IF fs = <<>> THEN [filters |-> <<>>, frame |-> frame]
    ELSE LET r == filter_frame(Head(fs), frame, d)
             rest == ApplyFilters(Tail(fs), r.frame, d)
         IN [filters |-> <<r.filter>> \o rest.filters, frame |-> rest.frame]

\* C18: on every Display::render_frame call in which the current generator
\* returns Ok, every Filter in the Display's filter list is invoked exactly
\* once, in list order, on the Display's frame after the generator has
\* written it: afterwards each filter is in the state one filter_frame call
\* with this dt leaves it in, and the frame is the painted frame passed
\* through the filters.
C18_FiltersInvoked ==
    [][(/\ RenderCall
        /\ last'.arg = <<Queue[1].gen.id>>
        /\ FrontOut = "Ok")
       => LET painted == generator_render_frame(Queue[1].gen, Disp.frame, dt', "Ok")
              want == ApplyFilters(Disp.filters, painted.frame, dt')
          IN /\ displays'[1].filters = want.filters
             /\ displays'[1].frame = want.frame]_vars

\* C19: the filters rewrite the frame in place: after Breath::filter_frame
\* every pixel equals its value before the call scaled by the filter's
\* position pos; after Strobe::filter_frame every pixel is black when the
\* elapsed fraction r of the period is not below duty, and unchanged when r
\* is below duty.
C19_FiltersRewriteFrame ==
    [][(pc = "filter" /\ last'.op = "filter")
       => LET f == displays'[1].filters[1]
              old == Disp.frame.leds
              new == displays'[1].frame.leds
          IN /\ DOMAIN new = DOMAIN old
             /\ f.type = "Breath" =>
                   \A n \in DOMAIN old : \A ch \in 1..3 :
                      new[n][ch] = (old[n][ch] * Min(Max(f.pos, 0), f.dur * f.dur))
                                      \div (f.dur * f.dur)
             /\ f.type = "Strobe" =>
                   \A n \in DOMAIN old :
                      new[n] = IF f.time * BrDen >= f.duty * f.period
                               THEN Black ELSE old[n]]_vars

\* a step of run() or of the drop, as opposed to the arrival of the signal
MainStep == SIGINT' = SIGINT

\* C20: in every tick of run() the Displays are visited in exactly the order
\* in which they were supplied at construction: a tick starts at the first
\* Display and goes on to the next one, one at a time, for as long as run()
\* has not returned.  Each Display visited that has not finished has
\* render_frame called exactly once with that tick's dt (the dt of the ping
\* that started the tick), and a Display marked finished is never rendered
\* again (it is skipped and stays finished).
C20_FixedOrderOncePerTick ==
    [][/\ \A n \in DOMAIN displays : displays[n].id = n /\ displays'[n].id = n
       /\ i' # i => \/ (last'.op = "ping" /\ i' = 1)
                    \/ (last'.op \in {"render", "skip", "write", "check"}
                           /\ i' = i + 1 /\ i' <= Len(displays))
       /\ dt' # dt => last'.op = "ping"
       /\ \A n \in DOMAIN finished : finished[n] => finished'[n]
       /\ (MainStep /\ pc = "render")
             => (/\ last'.disp = i
                 /\ last'.op = IF finished[i] THEN "skip" ELSE "render"
                 /\ i' = i + 1 \/ pc' # "render")
       /\ (MainStep /\ last'.op = "render")
             => (/\ pc = "render"
                 /\ ~finished[i]
                 /\ displays' = [displays EXCEPT ![i] =
                                    render_frame(displays[i], dt, last'.res).d])
       /\ (MainStep /\ last'.op = "skip") => displays' = displays]_vars

\* the second tick of a drawer with two Displays: the first Display had
\* finished and was skipped, the second has just been rendered
C20_Witness ==
    /\ sink = "term"
    /\ Len(displays) = 2
    /\ last.op = "render"
    /\ last.disp = 2
    /\ last.state = "Ok"
    /\ finished[1]
    /\ ~finished[2]
    /\ dt > 0
    /\ pc = "write"

\* C21: in every tick of run() of a sink that has a frame writer (hardware,
\* terminal), the render step of a Display -- render_frame, or the skip of a
\* Display that has finished -- is followed by the write of that Display's
\* frame unless render_frame ended the run with an error; a write happens
\* only directly after the render step of the same Display in the same tick,
\* and a new tick starts only after the last Display has been written.
C21_WriteEveryDisplay ==
    [][sink # "null" =>
        /\ (MainStep /\ pc = "render" /\ pc' # "returned")
              => (pc' = "write" /\ i' = i /\ dt' = dt)
        /\ (MainStep /\ pc = "write")
              => (/\ last'.op = "write" /\ last'.disp = i
                  /\ last.op \in {"render", "skip"} /\ last.disp = i
                  /\ sink = "pi" =>
                        hw' = write_frame(hw, brightness, displays[i].frame))
        /\ (MainStep /\ last'.op = "write") => pc = "write"
        /\ (MainStep /\ last'.op \in {"ping", "complete"} /\ last.op # "run")
              => (/\ last.op = IF sink = "pi" THEN "check" ELSE "write"
                  /\ last.disp = Len(displays))]_vars

\* the second tick of a hardware sink with two Displays: the first Display
\* had finished in an earlier tick, was skipped, and its frame has been
\* transmitted again
C21_Witness ==
    /\ sink = "pi"
    /\ Len(displays) = 2
    /\ last.op = "write" /\ last.disp = 1
    /\ finished[1] /\ ~finished[2]
    /\ displays[1].generators = <<>>
    /\ displays[2].generators # <<>>
    /\ ~displays[2].generators[1].gen.fresh
    /\ Len(hw.wire) > 0

\* C22: at every moment of the hardware sink's lifetime the pixel count
\* recorded for the stop frame (num) is at least the length of every frame
\* the sink holds, hence of every frame transmitted so far; the stop frame
\* sent on destruction carries the pixel group 0xE0, 0, 0, 0 at every pixel
\* position that any transmitted frame addressed.
C22_StopCoversFrames ==
    sink = "pi" =>
        /\ \A n \in DOMAIN displays : Len(displays[n].frame.leds) <= num
        /\ last.op = "write" =>
              /\ Len(LastFrame) >= 4 + 4 * Len(displays[last.disp].frame.leds)
              /\ Len(displays[last.disp].frame.leds) <= num
        /\ pc = "dropped" =>
              \A n \in DOMAIN displays :
                  \A p \in 1..Len(displays[n].frame.leds) :
                      SubSeq(LastFrame, 4 * p + 1, 4 * p + 4) = <<224, 0, 0, 0>>

\* a hardware sink with a short and a long Display, dropped after a run in
\* which the frames of both were transmitted
C22_Witness ==
    /\ sink = "pi"
    /\ pc = "dropped"
    /\ exit = "complete"
    /\ Len(displays) = 2
    /\ Len(displays[1].frame.leds) = 1
    /\ Len(displays[2].frame.leds) = MaxLen
    /\ hw.frameStart > 0

----------------------------------------------------------------------------
(* Properties of the Cycle generator inside a Display, under SpecCycle *)

\* the Display has been ticked n times, the first three times with dt = P
CycleScenario(n) ==
    /\ Len(ticks) = n
    /\ ~built[1].looping
    /\ \A k \in 1..Min(n, 3) : ticks[k] = built[1].generators[1].gen.cycle_period

AllLeds(c) == \A n \in DOMAIN displays[1].frame.leds : displays[1].frame.leds[n] = c

\* C23: a non-looping Display with one Cycle generator (period P, ordered
\* palette red, green, blue) driven by three ticks of dt = P each has its
\* frame all red after the first tick, all green after the second and all
\* blue after the third, and reports Done on a fourth tick of any size.
C23_CycleScenario ==
    /\ CycleScenario(1) => AllLeds(CyclePalette[1])
    /\ CycleScenario(2) => AllLeds(CyclePalette[2])
    /\ CycleScenario(3) => AllLeds(CyclePalette[3])
    /\ CycleScenario(4) => last.state = "Done"

----------------------------------------------------------------------------
(* Properties of single generators and filters, under SpecGen *)

RECURSIVE SumSeq(_)
SumSeq(q) == IF q = <<>> THEN 0 ELSE Head(q) + SumSeq(Tail(q))

\* the Cycle as constructed, after one single tick of size D
CycleOneTick(D) == cycle_render_frame(built[1], FrameNew(BrDen, 1), D)

\* C24: for a Cycle generator with an ordered palette and period P, after
\* any sequence of ticks whose dt values sum to D the palette index and
\* cycle_time_remaining equal those after one single tick with dt = D; one
\* tick spanning k whole periods advances the palette by k colours.
C24_CycleTickSizeInvariant ==
    (Comp.type = "Cycle" /\ pc = "gen" /\ ticks # <<>>)
    => /\ ~CycleOneTick(SumSeq(ticks)).panic
       /\ CycleOneTick(SumSeq(ticks)).gen.ind = Comp.ind
       /\ CycleOneTick(SumSeq(ticks)).gen.cycle_time_remaining
             = Comp.cycle_time_remaining
       /\ \A k \in 1..MaxTicks :
             ticks = <<k * Comp.cycle_period>> => Comp.ind = k % Len(Comp.order)

\* C25: for every Rainbow and every tick size dt >= 0, a dt that spans
\* several rainbow periods included, the stored hue satisfies
\* 0 <= hue < 360 after the tick.
C25_HueInRange ==
    (Comp.type = "Rainbow" /\ last.op = "tick")
    => (0 <= Comp.hue /\ Comp.hue < 360 * Comp.rainbow_length)

IsBreath == Comp.type \in {"Breath", "BreathGen"}

C26_WitnessGenerator ==
    /\ Comp.type = "BreathGen"
    /\ pc = "gen" /\ last.op = "tick"
    /\ Comp.pos > 0 /\ Len(ticks) > 1

\* a slow Breath filter at the top of its breath: vel has come down to 0
C26_WitnessApex ==
    /\ Comp.type = "Breath"
    /\ pc = "gen" /\ last.op = "tick"
    /\ Comp.vel = 0 /\ 4 * Comp.pos >= 3 * Comp.dur * Comp.dur

\* C27: for every generator and filter variant and after any sequence of
\* ticks, reset() leaves the component in exactly its post-construction
\* state: time counters restored, palette index 0, and for Breath both
\* velocity and position restored (vel = initial velocity, pos = 0).
C27_ResetRestores ==
    last.op = "reset" => Comp = built[1]

----------------------------------------------------------------------------
(* Properties of Timer::ping, under SpecTimer *)

\* C28: with a target duration set, every ping() returns only once at
\* least the target duration has elapsed since the instant the previous
\* ping sampled, and the dt it returns is that elapsed time: dt >= target
\* for every ping, and n pings accumulate at least n times the target.
C28_PingWaitsTarget ==
    (timer.target_dt >= 0 /\ pc = "idle" /\ timer.pings > 0)
    => /\ timer.dt = timer.ctime - timer.ptime
       /\ timer.dt >= timer.target_dt
       /\ timer.acc >= timer.pings * timer.target_dt

\* the same, of the Timer of ranos_core alone
C28_CoreTimerWaits ==
    timer.rev = "core" => C28_PingWaitsTarget

\* the second ping of a ranos_core Timer with a target returns after the
\* clock has moved on by more than the target
C28_CoreWitness ==
    /\ timer.rev = "core" /\ timer.target_dt = MaxTarget
    /\ pc = "idle" /\ timer.pings = 2
    /\ timer.dt > timer.target_dt

----------------------------------------------------------------------------
(* Properties of the RGB conversions, under SpecRGB *)

\* C29: for every channel triple x and every one of the six channel orders
\* o, RGB::from_tuple(x, o).as_tuple(o) = x.
C29_TupleRoundTrip ==
    last.op = "as_tuple" => last.res = built[1]

\* a triple of three different channels has gone through from_tuple and
\* as_tuple in an order that moves every channel
C29_Witness ==
    /\ last.op = "as_tuple"
    /\ built = << <<1, 130, 255>>, "GBR" >>
    /\ last.res = <<1, 130, 255>>

----------------------------------------------------------------------------
(* Properties of Frame, under SpecFrame *)

\* C30: a Frame's brightness is within [0, 1] in every reachable state:
\* whatever value is passed to Frame::new or set_brightness, or obtained
\* through Frame::read, the stored brightness is clamped into [0, 1].
C30_BrightnessInRange ==
    0 <= displays[1].frame.brightness /\ displays[1].frame.brightness <= BrDen

\* the same of the Frames that were never replaced by a read
C30_WrittenBrightnessInRange ==
    last.op \in {"new", "set_brightness"} => C30_BrightnessInRange

----------------------------------------------------------------------------
(* Further properties of the run loop, under Spec *)

\* C35: at every point of run() the counter num_finished equals the number
\* of Displays whose has_finished flag is set: no Display is counted twice
\* and the counter never exceeds the number of Displays.
C35_FinishedCounter ==
    /\ num_finished = Cardinality({n \in DOMAIN finished : finished[n]})
    /\ num_finished <= Len(displays)

\* a run with two Displays of which the first has finished and was passed
\* over in a later tick
C35_Witness ==
    /\ Len(displays) = 2
    /\ num_finished = 1
    /\ finished[1] /\ ~finished[2]
    /\ last.op = "skip" /\ last.disp = 1

\* the generator ids of a queue, front first
QueueIds(q) == [n \in DOMAIN q |-> q[n].gen.id]

\* C36: in a looping Display whose queued generators all have Time policies
\* and return Ok, a render_frame call leaves the queue with the same
\* generators in the same cyclic order (either untouched or with the front
\* generator moved to the back), its length unchanged, and reports Ok, never
\* Done.
C36_LoopingRotation ==
    [][(/\ RenderCall
        /\ Disp.looping
        /\ \A n \in DOMAIN Queue : Queue[n].rt.type = "Time"
        /\ FrontOut = "Ok")
       => LET q == displays'[1].generators
          IN /\ Len(q) = Len(Queue)
             /\ \/ QueueIds(q) = QueueIds(Queue)
                \/ QueueIds(q) = Tail(QueueIds(Queue)) \o <<Queue[1].gen.id>>
             /\ last'.state = "Ok"]_vars
C36_Witness ==
    /\ pc = "display"
    /\ Disp.looping
    /\ last.op = "render" /\ last.state = "Ok"
    /\ Len(Queue) = 2
    /\ QueueIds(Queue) = <<2, 1>>
    /\ \A n \in DOMAIN Queue : Queue[n].rt.type = "Time"
    /\ last.arg = <<1>>


\* the (generator, runtime) pairs a Display was constructed with, in order
ConstructionShape(d) ==
    [n \in 1..Cardinality(DOMAIN d.original_runtimes) |->
        [id |-> n, rt |-> d.original_runtimes[n]]]

\* C33: after any sequence of render_frame and trigger_next_generator calls,
\* reset() leaves the generator queue holding every generator supplied at
\* construction, in construction order, each in its reset state and paired
\* with its original runtime.
C33_ResetRestoresQueue ==
    [][(pc = "display" /\ last'.op = "reset")
       => LET q == displays'[1].generators
          IN /\ QueueShape(q) = ConstructionShape(Disp)
             /\ \A n \in DOMAIN q : q[n].gen.fresh]_vars

\* What reset() does restore: every generator still queued is reset and
\* paired with its original runtime, the queue keeping its length and order.
C33_ResetRestoresQueued ==
    [][(pc = "display" /\ last'.op = "reset")
       => LET q == displays'[1].generators
          IN /\ QueueIds(q) = QueueIds(Queue)
             /\ \A n \in DOMAIN q :
                   /\ q[n].gen.fresh
                   /\ q[n].rt = Disp.original_runtimes[q[n].gen.id]]_vars


\* C32: if the front generator returns ErrRetry on every invocation,
\* render_frame keeps retrying and does not return: no render_frame call
\* whose front generator answers ErrRetry comes back with a DisplayState.
C32_RetryNeverReturns ==
    [][(/\ RenderCall
        /\ FrontOut = "ErrRetry")
       => last'.state \notin {"Ok", "Done", "Err"}]_vars

\* What the retry does: the generator that answered ErrRetry is invoked once,
\* is gone from the queue afterwards, and the call returns after at most one
\* generator invocation per generator that was queued.
C32_RetryDropsAndReturns ==
    [][(/\ RenderCall
        /\ FrontOut = "ErrRetry")
       => /\ last'.state \in {"Ok", "Done", "Err"}
          /\ Len(last'.arg) <= Len(Queue)
          /\ \A n \in DOMAIN last'.arg : n > 1 => last'.arg[n] # Queue[1].gen.id
          /\ \A n \in DOMAIN displays'[1].generators :
                displays'[1].generators[n].gen.id # Queue[1].gen.id]_vars


(* Clock-line discipline of the hardware sink, under SpecByte *)
\* the level of the clock line before operation n of ops, the line being at
\* level `after` once all of ops have been issued
RECURSIVE ClockBefore(_, _, _)
ClockBefore(ops, n, after) ==
    IF n > Len(ops) THEN after
    ELSE LET next == ClockBefore(ops, n + 1, after)
         IN IF ops[n] = "toggle"
            THEN (IF next = "Low" THEN "High" ELSE "Low")
            ELSE next

\* the rising clock edges among the operations ops
RisingEdges(ops, after) ==
    {n \in DOMAIN ops : ops[n] = "toggle" /\ ClockBefore(ops, n, after) = "Low"}

\* C37: once set_pins_low has driven both lines low, the clock line is low
\* at the end of every byte (hence of every frame, a frame being a run of
\* bytes) and before every data-line write; every bit of a byte produces
\* exactly one rising clock edge (eight per byte), each coming directly after
\* the write of that bit's data level.
C37_ClockDiscipline ==
    pc = "byte" =>
        /\ hw.clock = "Low"
        /\ last.op = "write_byte" =>
              /\ \A n \in DOMAIN hw.ops :
                    hw.ops[n] \in Levels => ClockBefore(hw.ops, n, hw.clock) = "Low"
              /\ Cardinality(RisingEdges(hw.ops, hw.clock)) = 8
              /\ \A n \in RisingEdges(hw.ops, hw.clock) :
                    n > 1 /\ hw.ops[n - 1] \in Levels
              /\ Cardinality({n \in DOMAIN hw.ops : hw.ops[n] \in Levels}) = 8
C37_Witness ==
    /\ pc = "byte"
    /\ last.op = "write_byte" /\ last.arg = 165
    /\ hw.clock = "Low"
    /\ Cardinality(RisingEdges(hw.ops, hw.clock)) = 8
    /\ hw.wire = <<165>>


(* Further properties of single generators, under SpecGen *)
\* C38: Cycle.render_frame completes without a Duration underflow for every
\* dt >= 0, dt greater than cycle_period + cycle_time_remaining included,
\* and leaves cycle_time_remaining within [0, cycle_period].
C38_CycleNoUnderflow ==
    (Comp.type = "Cycle" /\ last.op = "tick")
    => /\ last.state # "Panic"
       /\ 0 <= Comp.cycle_time_remaining
       /\ Comp.cycle_time_remaining <= Comp.cycle_period

\* What holds: a tick with dt <= cycle_period + cycle_time_remaining
\* completes, and every completed tick leaves cycle_time_remaining within
\* [0, cycle_period].
C38_CycleBoundedWhenCompleted ==
    (Comp.type = "Cycle" /\ last.op = "tick" /\ last.state # "Panic")
    => /\ 0 <= Comp.cycle_time_remaining
       /\ Comp.cycle_time_remaining <= Comp.cycle_period


(* Further properties of the Timer, under SpecTimer *)
\* C40: after any number of ping() calls since construction or reset(), the
\* sum of all returned dt values equals the last sampled instant (ctime)
\* minus the instant sampled at construction or reset: no elapsed time is
\* lost or counted twice between consecutive pings.
C40_DtSumTelescopes ==
    pc = "idle" => timer.acc = timer.ctime - built[1].ctime
C40_Witness ==
    /\ pc = "idle"
    /\ last.op = "ping"
    /\ built[1].ctime > 0
    /\ timer.pings = 2
    /\ timer.dt >= 1
    /\ timer.acc > timer.dt


(* Termination of the run loop, under SpecLive *)
\* every Display is non-looping, every queued generator has a Time policy,
\* the tick in progress has dt > 0 and the generators of the render just
\* made all returned Ok
TimedOkRun ==
    /\ \A n \in DOMAIN displays :
          /\ ~displays[n].looping
          /\ \A m \in DOMAIN displays[n].generators :
                displays[n].generators[m].rt.type = "Time"
    /\ pc \in {"render", "write", "check"} => dt > 0
    /\ last.op = "render" => \A g \in DOMAIN last.res : last.res[g] = "Ok"

\* C39: a run in which every Display is non-looping, every generator has a
\* Time policy and always returns Ok and every tick has dt > 0 terminates:
\* run() returns after finitely many ticks, and when it returns from its
\* loop condition every Display has reported completion.  (A behaviour in
\* which the hypothesis fails at some point satisfies the formula there.)
C39_RunTerminates ==
    <>(\/ ~TimedOkRun
       \/ /\ pc = "returned"
          /\ exit \in {"complete", "sigint"}
          /\ exit = "complete" => \A n \in DOMAIN finished : finished[n])
C39_Witness ==
    /\ pc = "returned"
    /\ exit = "complete"
    /\ ~SIGINT
    /\ TimedOkRun
    /\ dt > 0
    /\ Len(displays) = 2
    /\ \A n \in DOMAIN displays :
          /\ finished[n]
          /\ DOMAIN displays[n].original_runtimes # {}
          /\ displays[n].generators = <<>>


(* Properties of the four-lane hardware sink, under SpecSpeed *)
\* bit b (0 the most significant) of the w-th word clocked out, w from 1
SpeedBit(w, b) == hw.lanes[(b % 4) + 1][8 * (w - 1) + (b \div 4) + 1]

\* byte k (1 the most significant) of the w-th word
SpeedByte(w, k) == ByteOf([b \in 1..8 |-> SpeedBit(w, 8 * (k - 1) + b - 1)])

\* C34: for every pixel, SpeedPiDraw::write_frame sends one 32-bit word
\* whose bytes from most to least significant are the control byte
\* 0xE0 | brightness, then the pixel's blue, green and red channels, as the
\* plain hardware sink sends them.
C34_SpeedWordLayout ==
    (pc = "speed" /\ last.op = "write_frame")
    => \A n \in DOMAIN built[1].leds :
          /\ SpeedByte(n + 1, 1) = OrE0(brightness_apa102c(built[1]))
          /\ SpeedByte(n + 1, 2) = blue(built[1].leds[n])
          /\ SpeedByte(n + 1, 3) = green(built[1].leds[n])
          /\ SpeedByte(n + 1, 4) = red(built[1].leds[n])

\* What is sent: the control byte, blue, green, and blue once more; the
\* frame is preceded by one zero word.
C34_SpeedWordSent ==
    (pc = "speed" /\ last.op = "write_frame")
    => /\ \A k \in 1..4 : SpeedByte(1, k) = 0
       /\ \A n \in DOMAIN built[1].leds :
             /\ SpeedByte(n + 1, 1) = OrE0(brightness_apa102c(built[1]))
             /\ SpeedByte(n + 1, 2) = blue(built[1].leds[n])
             /\ SpeedByte(n + 1, 3) = green(built[1].leds[n])
             /\ SpeedByte(n + 1, 4) = blue(built[1].leds[n])


(* Properties of App::run, under SpecApp *)
\* C31: with looping enabled App::run keeps re-queuing the animations the
\* drawer returns (reset, in their original order) and runs them again until
\* SIGINT is signalled; once SIGINT is signalled while an animation is
\* running, no later animation of the queue is started: the only animation
\* updated from then on is the one that was running.
C31_NoLaterAnimation ==
    (finished[1] /\ i # 0 /\ built # <<>>) => built[1].id = i

\* What holds for every drawer: once the flag is set App::run does not start
\* the drawer again, and a looping App re-queues the returned animations
\* reset and in the order they were returned.
C31_NoRerunAfterSigint ==
    [][/\ (pc = "appcheck" /\ SIGINT) => pc' # "app"
       /\ (pc = "appcheck" /\ pc' = "app")
            => /\ finished[1]
               /\ displays' = [n \in DOMAIN ticks |->
                                  AnimationNew(ticks[n].id, ticks[n].runtime)]]_vars

\* What holds for the hardware drawer, which looks at the flag after every
\* animation.
C31_PiStopsAfterCurrent ==
    (sink = "pi" /\ i # 0 /\ built # <<>>) => built[1].id = i

====









